---- MODULE Spec2Model ----
(***************************************************************************)
(* Model of the Jira REST client (JiraClient: constructor, url, getJson,   *)
(* putJson, postJson) of jira-api-mcp-wrapper.                             *)
(*                                                                         *)
(* Text is modelled in two ways.  Addresses (base URL, path, query) are    *)
(* sequences of one-character strings, so that trim, the trailing-slash    *)
(* strip, startsWith and the URL parser work on characters.  Response      *)
(* bodies, which the code compares with a cap of 20,000 characters, are    *)
(* sequences of runs [ch, n] (n copies of the character ch).               *)
(***************************************************************************)
EXTENDS Integers, Sequences, FiniteSets, TLC

VARIABLES
    cfgIn,    \* the JiraClientConfig handed to the constructor
    client,   \* the JiraClient object: not built yet, built, or constructor threw
    calls,    \* the getJson/putJson/postJson invocations, one record per call
    env,      \* process.env: the four JIRA_* variables jiraClientFromEnv reads
    adf,      \* one value handed to looksLikeAdfDoc and assertValidAdfDoc
    tool      \* one invocation of a tool handler of the MCP server

vars == <<cfgIn, client, calls, env, adf, tool>>

\* the state outside the client object and its calls
outside == <<env, adf, tool>>

(***************************************************************************)
(* Bounds of the model.                                                    *)
(***************************************************************************)
\* number of client calls that may be in flight on the one client
NumCalls == 2
\* largest number of entries of a query map
MaxParams == 2
\* largest number of fields of the field map of a tool invocation
MaxFields == 2
\* largest number of issueUpdates of a bulk create
MaxIssues == 2
\* longest run of whitespace put in front of / behind a base address
MaxPad == 1
\* longest tail of slashes and whitespace appended to a base address
MaxTail == 3

\* most users in a remote list of the user specification (its long lists have
\* nine more)
MaxUsers == 2

(***************************************************************************)
(* Character strings.                                                      *)
(***************************************************************************)
SP == " "
TAB == "\t"
SLASH == "/"

\* the characters String.prototype.trim removes (of the model's alphabet)
IsWhitespace(ch) == ch \in {SP, TAB}

Undefined == [t |-> "undefined"]

RECURSIVE SeqsUpTo(_, _)
\* every sequence over alphabet of length 0..n
SeqsUpTo(alphabet, n) ==
    IF n = 0 THEN {<<>>}
    ELSE LET shorter == SeqsUpTo(alphabet, n - 1)
         IN shorter \cup {Append(s, ch) : s \in shorter, ch \in alphabet}

\* s.startsWith(prefix)
StartsWith(s, prefix) ==
    /\ Len(s) >= Len(prefix)
    /\ SubSeq(s, 1, Len(prefix)) = prefix

\* number of leading characters of s that satisfy IsWhitespace
RECURSIVE LeadingWs(_)
LeadingWs(s) ==
    IF s # <<>> /\ IsWhitespace(Head(s)) THEN 1 + LeadingWs(Tail(s)) ELSE 0

RECURSIVE TrailingWs(_)
TrailingWs(s) ==
    IF s # <<>> /\ IsWhitespace(s[Len(s)])
    THEN 1 + TrailingWs(SubSeq(s, 1, Len(s) - 1)) ELSE 0

\* raw.trim()
Trim(s) ==
    IF LeadingWs(s) = Len(s) THEN <<>>
    ELSE SubSeq(s, LeadingWs(s) + 1, Len(s) - TrailingWs(s))

\* s.replace(/\/+$/, ''): drops the one run of slashes that ends the string
RECURSIVE StripTrailingSlashes(_)
StripTrailingSlashes(s) ==
    IF s # <<>> /\ s[Len(s)] = SLASH
    THEN StripTrailingSlashes(SubSeq(s, 1, Len(s) - 1)) ELSE s

HTTP == <<"h", "t", "t", "p", ":", "/", "/">>
HTTPS == <<"h", "t", "t", "p", "s", ":", "/", "/">>

SchemeError == "JIRA_BASE_URL must start with http:// or https://"

\* a variant that tests the scheme on the raw string
normalizeBaseUrl_RawScheme(raw) ==
    LET trimmed == StripTrailingSlashes(Trim(raw))
    IN IF ~StartsWith(raw, HTTP) /\ ~StartsWith(raw, HTTPS)
       THEN [ok |-> FALSE, error |-> SchemeError]
       ELSE [ok |-> TRUE, value |-> trimmed]

\* normalizeBaseUrl(raw): the normalized base address, or the Error it throws
normalizeBaseUrl(raw) ==
    LET trimmed == StripTrailingSlashes(Trim(raw))
    IN IF ~StartsWith(trimmed, HTTP) /\ ~StartsWith(trimmed, HTTPS)
       THEN [ok |-> FALSE, error |-> SchemeError]
       ELSE [ok |-> TRUE, value |-> trimmed]

DefaultTimeoutMs == 30000

(***************************************************************************)
(* new URL(input).toString() for an input that starts with http:// or      *)
(* https:// and is written over the model's alphabet: letters, digits,     *)
(* ".", "/", space and tab.  The steps are those of the URL parser the     *)
(* runtime implements: strip leading and trailing space/control            *)
(* characters, remove every tab, skip the slashes after "scheme:", read    *)
(* the host up to the next slash (no host, or a space in it, is a          *)
(* TypeError), percent-encode spaces of the path, and serialize an empty   *)
(* path as "/".                                                            *)
(***************************************************************************)
RECURSIVE RemoveTabs(_)
RemoveTabs(s) ==
    IF s = <<>> THEN <<>>
    ELSE IF Head(s) = TAB THEN RemoveTabs(Tail(s))
    ELSE <<Head(s)>> \o RemoveTabs(Tail(s))

RECURSIVE SkipSlashes(_)
SkipSlashes(s) ==
    IF s # <<>> /\ Head(s) = SLASH THEN SkipSlashes(Tail(s)) ELSE s

\* length of the prefix of s before its first slash
RECURSIVE HostLen(_)
HostLen(s) ==
    IF s = <<>> \/ Head(s) = SLASH THEN 0 ELSE 1 + HostLen(Tail(s))

RECURSIVE PathEncode(_)
PathEncode(s) ==
    IF s = <<>> THEN <<>>
    ELSE (IF Head(s) = SP THEN <<"%", "2", "0">> ELSE <<Head(s)>>) \o PathEncode(Tail(s))

URLParse(input) ==
    LET cleaned == RemoveTabs(Trim(input))
        scheme == IF StartsWith(cleaned, HTTPS) THEN HTTPS ELSE HTTP
        \* what follows "scheme:", the slashes after it skipped
        rest == SkipSlashes(SubSeq(cleaned, Len(scheme) - 1, Len(cleaned)))
        host == SubSeq(rest, 1, HostLen(rest))
        path == SubSeq(rest, HostLen(rest) + 1, Len(rest))
    IN IF host = <<>> \/ \E i \in 1..Len(host) : host[i] = SP
       THEN [ok |-> FALSE, error |-> "TypeError"]
       ELSE [ok |-> TRUE,
             href |-> scheme \o host \o (IF path = <<>> THEN <<SLASH>> ELSE PathEncode(path))]

(***************************************************************************)
(* Query parameters: Record<string, string | number | boolean | undefined> *)
(* as the sequence of its entries [k, v] in Object.entries order.          *)
(***************************************************************************)
StrVal(s) == [t |-> "string", s |-> s]
NumVal(n) == [t |-> "number", n |-> n]
BoolVal(b) == [t |-> "boolean", b |-> b]
Arr(items) == [t |-> "array", items |-> items]
Obj(entries) == [t |-> "object", entries |-> entries]
Query(entries) == [t |-> "object", entries |-> entries]

Digit(d) == <<"0", "1", "2", "3", "4", "5", "6", "7", "8", "9">>[d + 1]

RECURSIVE Decimal(_)
\* the decimal digits of a natural number
Decimal(n) == IF n < 10 THEN <<Digit(n)>> ELSE Append(Decimal(n \div 10), Digit(n % 10))

\* String(v) of a defined query value
String(v) ==
    CASE v.t = "string" -> v.s
      [] v.t = "number" -> Decimal(v.n)
      [] v.t = "boolean" -> IF v.b THEN <<"t", "r", "u", "e">> ELSE <<"f", "a", "l", "s", "e">>

\* a variant of the serializer that leaves a plus sign as it is
FormEncodeChar_RawPlus(ch) ==
    CASE ch = SP -> <<"+">>
      [] ch = "%" -> <<"%", "2", "5">>
      [] ch = "&" -> <<"%", "2", "6">>
      [] ch = "=" -> <<"%", "3", "D">>
      [] ch = SLASH -> <<"%", "2", "F">>
      [] OTHER -> <<ch>>

\* one character under the application/x-www-form-urlencoded serializer
FormEncodeChar(ch) ==
    CASE ch = SP -> <<"+">>
      [] ch = "%" -> <<"%", "2", "5">>
      [] ch = "&" -> <<"%", "2", "6">>
      [] ch = "+" -> <<"%", "2", "B">>
      [] ch = "=" -> <<"%", "3", "D">>
      [] ch = SLASH -> <<"%", "2", "F">>
      [] OTHER -> <<ch>>

RECURSIVE FormEncode(_)
FormEncode(s) == IF s = <<>> THEN <<>> ELSE FormEncodeChar(Head(s)) \o FormEncode(Tail(s))

RECURSIVE SearchParams(_)
\* the name=value pairs url.searchParams holds after the loop of url():
\* undefined values are skipped, the others set as String(v)
SearchParams(entries) ==
    IF entries = <<>> THEN <<>>
    ELSE (IF Head(entries).v.t = "undefined" THEN <<>>
          ELSE <<[k |-> Head(entries).k, v |-> String(Head(entries).v)]>>)
         \o SearchParams(Tail(entries))

RECURSIVE SerializeParams(_)
SerializeParams(pairs) ==
    IF pairs = <<>> THEN <<>>
    ELSE FormEncode(pairs[1].k) \o <<"=">> \o FormEncode(pairs[1].v)
         \o (IF Len(pairs) > 1 THEN <<"&">> \o SerializeParams(Tail(pairs)) ELSE <<>>)

\* a variant of url() that drops the query parameters
url_NoQuery(baseUrl, path, query) ==
    URLParse(baseUrl \o path)

\* JiraClient.url(path, query): the address as a string, or the TypeError of new URL
url(baseUrl, path, query) ==
    LET parsed == URLParse(baseUrl \o path)
        pairs == IF query.t = "undefined" THEN <<>> ELSE SearchParams(query.entries)
    IN IF ~parsed.ok THEN parsed
       ELSE [ok |-> TRUE,
             href |-> parsed.href \o
                      (IF pairs = <<>> THEN <<>> ELSE <<"?">> \o SerializeParams(pairs))]

(***************************************************************************)
(* The Authorization header.                                               *)
(***************************************************************************)
\* the printable ASCII characters in code order, starting at code 32 (the grave
\* accent, code 96, named by its code point)
Ascii ==
    <<" ", "!", "\"", "#", "$", "%", "&", "'", "(", ")", "*", "+", ",",
      "-", ".", "/", "0", "1", "2", "3", "4", "5", "6", "7", "8", "9", ":",
      ";", "<", "=", ">", "?", "@", "A", "B", "C", "D", "E", "F", "G", "H",
      "I", "J", "K", "L", "M", "N", "O", "P", "Q", "R", "S", "T", "U", "V",
      "W", "X", "Y", "Z", "[", "\\", "]", "^", "_", "U+0060", "a", "b", "c",
      "d", "e", "f", "g", "h", "i", "j", "k", "l", "m", "n", "o", "p", "q",
      "r", "s", "t", "u", "v", "w", "x", "y", "z", "{", "|", "}", "~">>

\* the UTF-8 bytes of a text of ASCII characters: Buffer.from(text, 'utf8')
Utf8(s) == [i \in 1..Len(s) |-> 31 + CHOOSE n \in 1..Len(Ascii) : Ascii[n] = s[i]]

Base64Alphabet ==
    <<"A", "B", "C", "D", "E", "F", "G", "H", "I", "J", "K", "L", "M", "N",
      "O", "P", "Q", "R", "S", "T", "U", "V", "W", "X", "Y", "Z", "a", "b",
      "c", "d", "e", "f", "g", "h", "i", "j", "k", "l", "m", "n", "o", "p",
      "q", "r", "s", "t", "u", "v", "w", "x", "y", "z", "0", "1", "2", "3",
      "4", "5", "6", "7", "8", "9", "+", "/">>

RECURSIVE Base64(_)
\* buffer.toString('base64'): three bytes become four characters, a last group
\* of one or two bytes is padded with =
Base64(bytes) ==
    LET D(n) == Base64Alphabet[n + 1]
    IN IF bytes = <<>> THEN <<>>
       ELSE IF Len(bytes) = 1
       THEN <<D(bytes[1] \div 4), D((bytes[1] % 4) * 16), "=", "=">>
       ELSE IF Len(bytes) = 2
       THEN <<D(bytes[1] \div 4),
              D((bytes[1] % 4) * 16 + bytes[2] \div 16),
              D((bytes[2] % 16) * 4),
              "=">>
       ELSE <<D(bytes[1] \div 4),
              D((bytes[1] % 4) * 16 + bytes[2] \div 16),
              D((bytes[2] % 16) * 4 + bytes[3] \div 64),
              D(bytes[3] % 64)>>
            \o Base64(SubSeq(bytes, 4, Len(bytes)))

BearerPrefix == <<"B", "e", "a", "r", "e", "r", " ">>
BasicPrefix == <<"B", "a", "s", "i", "c", " ">>

\* a variant that joins the two basic credentials without the colon
buildAuthHeader_NoColon(auth) ==
    IF auth.type = "bearer" THEN BearerPrefix \o auth.token
    ELSE BasicPrefix \o Base64(Utf8(auth.email \o auth.apiToken))

\* buildAuthHeader(auth)
buildAuthHeader(auth) ==
    IF auth.type = "bearer" THEN BearerPrefix \o auth.token
    ELSE BasicPrefix \o Base64(Utf8(auth.email \o <<":">> \o auth.apiToken))

\* the headers of the request of a method: Accept always, Content-Type when
\* the method sends a body, Authorization from the stored auth
Headers(method) ==
    IF method = "GET"
    THEN [Accept |-> "application/json",
          Authorization |-> buildAuthHeader(client.config.auth)]
    ELSE [Accept |-> "application/json",
          ContentType |-> "application/json",
          Authorization |-> buildAuthHeader(client.config.auth)]

(***************************************************************************)
(* Body text as runs: <<[ch |-> "x", n |-> 3]>> is "xxx".  Runs are kept   *)
(* canonical: no empty run, no two neighbouring runs of one character.     *)
(***************************************************************************)
Run(ch, n) == [ch |-> ch, n |-> n]

\* the text whose characters are those of the character sequence s
Lit(s) == [i \in 1..Len(s) |-> Run(s[i], 1)]

RECURSIVE TextLen(_)
\* text.length
TextLen(t) == IF t = <<>> THEN 0 ELSE Head(t).n + TextLen(Tail(t))

RECURSIVE CharAt(_, _)
\* the i-th character of t (1-based), "" beyond its end
CharAt(t, i) ==
    IF t = <<>> THEN ""
    ELSE IF i <= Head(t).n THEN Head(t).ch
    ELSE CharAt(Tail(t), i - Head(t).n)

RECURSIVE Slice0(_, _)
\* text.slice(0, n)
Slice0(t, n) ==
    IF t = <<>> \/ n <= 0 THEN <<>>
    ELSE IF Head(t).n >= n THEN <<Run(Head(t).ch, n)>>
    ELSE <<Head(t)>> \o Slice0(Tail(t), n - Head(t).n)

\* a + b
Cat(a, b) ==
    IF a = <<>> THEN b
    ELSE IF b = <<>> THEN a
    ELSE IF a[Len(a)].ch = b[1].ch
    THEN SubSeq(a, 1, Len(a) - 1) \o <<Run(b[1].ch, a[Len(a)].n + b[1].n)>> \o Tail(b)
    ELSE a \o b

BodyTextCap == 20000

\* the one character U+2026 (horizontal ellipsis)
ELLIPSIS == "U+2026"

\* the marker of a truncated body text
TruncationMarker == Lit(<<ELLIPSIS, "(", "t", "r", "u", "n", "c", "a", "t", "e", "d", ")">>)

TextVal(t) == [t |-> "string", s |-> t]

\* a variant that cuts one character late
readBodyTextSafely_OffByOne(read) ==
    IF ~read.ok THEN Undefined
    ELSE IF TextLen(read.text) > BodyTextCap
    THEN TextVal(Cat(Slice0(read.text, BodyTextCap + 1), TruncationMarker))
    ELSE TextVal(read.text)

\* a variant that turns a failed read into an empty text
readBodyTextSafely_EmptyOnFail(read) ==
    IF ~read.ok THEN TextVal(<<>>)
    ELSE IF TextLen(read.text) > BodyTextCap
    THEN TextVal(Cat(Slice0(read.text, BodyTextCap), TruncationMarker))
    ELSE TextVal(read.text)

\* readBodyTextSafely(res), given how res.text() ended: [ok |-> TRUE, text] when it
\* resolved, [ok |-> FALSE] when it rejected
readBodyTextSafely(read) ==
    IF ~read.ok THEN Undefined
    ELSE IF TextLen(read.text) > BodyTextCap
    THEN TextVal(Cat(Slice0(read.text, BodyTextCap), TruncationMarker))
    ELSE TextVal(read.text)

(***************************************************************************)
(* Responses and JSON.                                                     *)
(***************************************************************************)
\* Response.ok
ResOk(res) == res.status >= 200 /\ res.status <= 299

\* a Content-Type header value as its tokens; Null when the header is absent
Null == [t |-> "null"]
CtJson == [t |-> "string", s |-> <<"application/json">>]
CtJsonUtf8 == [t |-> "string", s |-> <<"application/json", ";", "charset=utf-8">>]
CtText == [t |-> "string", s |-> <<"text/plain">>]

\* (res.headers.get('content-type') || '').includes('application/json')
IsJsonContentType(res) ==
    /\ res.contentType.t = "string"
    /\ \E i \in 1..Len(res.contentType.s) : res.contentType.s[i] = "application/json"

EmptyObject == Obj(<<>>)
OkTrueObject == Obj(<<[k |-> "ok", v |-> BoolVal(TRUE)]>>)

EmptyObjectText == Lit(<<"{", "}">>)
OkTrueText == Lit(<<"{", "\"", "o", "k", "\"", ":", "t", "r", "u", "e", "}">>)

\* the characters of a text
Chars(t) ==
    IF \A i \in 1..Len(t) : t[i].n = 1 THEN [i \in 1..Len(t) |-> t[i].ch]
    ELSE [i \in 1..TextLen(t) |-> CharAt(t, i)]

\* the property names of the model, each with its characters
KeySpelling ==
    [ok |-> <<"o", "k">>,
     id |-> <<"i", "d">>,
     name |-> <<"n", "a", "m", "e">>,
     custom |-> <<"c", "u", "s", "t", "o", "m">>,
     searchable |-> <<"s", "e", "a", "r", "c", "h", "a", "b", "l", "e">>,
     schema |-> <<"s", "c", "h", "e", "m", "a">>,
     accountId |-> <<"a", "c", "c", "o", "u", "n", "t", "I", "d">>,
     displayName |-> <<"d", "i", "s", "p", "l", "a", "y", "N", "a", "m", "e">>,
     active |-> <<"a", "c", "t", "i", "v", "e">>,
     emailAddress |-> <<"e", "m", "a", "i", "l", "A", "d", "d", "r", "e", "s", "s">>,
     type |-> <<"t", "y", "p", "e">>,
     version |-> <<"v", "e", "r", "s", "i", "o", "n">>,
     content |-> <<"c", "o", "n", "t", "e", "n", "t">>,
     text |-> <<"t", "e", "x", "t">>,
     key |-> <<"k", "e", "y">>,
     total |-> <<"t", "o", "t", "a", "l">>,
     issues |-> <<"i", "s", "s", "u", "e", "s">>,
     errors |-> <<"e", "r", "r", "o", "r", "s">>]

\* the property name spelled by chars (one name stands for every other spelling)
KeyOf(chars) ==
    IF \E n \in DOMAIN KeySpelling : KeySpelling[n] = chars
    THEN CHOOSE n \in DOMAIN KeySpelling : KeySpelling[n] = chars
    ELSE "(other)"

\* obj[k] = v on the entries of an object: a key keeps the place it first had
Put(entries, k, v) ==
    IF \E i \in 1..Len(entries) : entries[i].k = k
    THEN [i \in 1..Len(entries) |->
            IF entries[i].k = k THEN [k |-> k, v |-> v] ELSE entries[i]]
    ELSE Append(entries, [k |-> k, v |-> v])

\* the outcome of a parsing step: no value, or a value and the index after it
NoParse == [ok |-> FALSE]
Parsed(value, next) == [ok |-> TRUE, value |-> value, next |-> next]

RECURSIVE SkipWs(_, _)
\* the index of the first character of s at or after i that is not JSON whitespace
SkipWs(s, i) ==
    IF i <= Len(s) /\ s[i] \in {SP, TAB, "\n", "\r"} THEN SkipWs(s, i + 1) ELSE i

\* the characters of word stand in s at index i
Matches(s, i, word) ==
    /\ i + Len(word) - 1 <= Len(s)
    /\ SubSeq(s, i, i + Len(word) - 1) = word

IsDigit(ch) == ch \in {"0", "1", "2", "3", "4", "5", "6", "7", "8", "9"}

RECURSIVE ParseChars(_, _, _)
\* the characters of a JSON string from index i (after its opening quote) to its
\* closing quote; an escape of a quote, a backslash or a slash stands for that
\* character (the texts of the model hold no other escape)
ParseChars(s, i, acc) ==
    IF i > Len(s) \/ s[i] \in {TAB, "\n", "\r"} THEN NoParse
    ELSE IF s[i] = "\"" THEN Parsed(acc, i + 1)
    ELSE IF s[i] = "\\"
    THEN IF i + 1 <= Len(s) /\ s[i + 1] \in {"\"", "\\", "/"}
         THEN ParseChars(s, i + 2, Append(acc, s[i + 1]))
         ELSE NoParse
    ELSE ParseChars(s, i + 1, Append(acc, s[i]))

RECURSIVE ParseDigits(_, _, _)
\* the natural number written by the digits of s from index i
ParseDigits(s, i, acc) ==
    IF i <= Len(s) /\ IsDigit(s[i])
    THEN ParseDigits(s, i + 1,
                     10 * acc + (CHOOSE d \in 0..9 : Digit(d) = s[i]))
    ELSE Parsed(acc, i)

\* a JSON number at index i: an integer without a leading zero (the texts of the
\* model hold no fraction and no exponent)
ParseNumber(s, i) ==
    LET negative == s[i] = "-"
        j == IF negative THEN i + 1 ELSE i
    IN IF j > Len(s) \/ ~IsDigit(s[j]) THEN NoParse
       ELSE IF s[j] = "0" /\ j + 1 <= Len(s) /\ IsDigit(s[j + 1]) THEN NoParse
       ELSE LET digits == ParseDigits(s, j, 0)
            IN IF digits.next <= Len(s) /\ s[digits.next] \in {".", "e", "E"}
               THEN NoParse
               ELSE Parsed(NumVal(IF negative THEN 0 - digits.value ELSE digits.value),
                           digits.next)

RECURSIVE ParseValue(_, _), ParseElements(_, _, _), ParseMembers(_, _, _)
\* the JSON value that starts at or after index i0 of s
ParseValue(s, i0) ==
    LET i == SkipWs(s, i0)
    IN IF i > Len(s) THEN NoParse
       ELSE IF s[i] = "["
       THEN LET j == SkipWs(s, i + 1)
            IN IF j <= Len(s) /\ s[j] = "]" THEN Parsed(Arr(<<>>), j + 1)
               ELSE ParseElements(s, j, <<>>)
       ELSE IF s[i] = "{"
       THEN LET j == SkipWs(s, i + 1)
            IN IF j <= Len(s) /\ s[j] = "}" THEN Parsed(Obj(<<>>), j + 1)
               ELSE ParseMembers(s, j, <<>>)
       ELSE IF s[i] = "\""
       THEN LET str == ParseChars(s, i + 1, <<>>)
            IN IF str.ok THEN Parsed(StrVal(str.value), str.next) ELSE NoParse
       ELSE IF Matches(s, i, <<"t", "r", "u", "e">>) THEN Parsed(BoolVal(TRUE), i + 4)
       ELSE IF Matches(s, i, <<"f", "a", "l", "s", "e">>) THEN Parsed(BoolVal(FALSE), i + 5)
       ELSE IF Matches(s, i, <<"n", "u", "l", "l">>) THEN Parsed(Null, i + 4)
       ELSE IF s[i] = "-" \/ IsDigit(s[i]) THEN ParseNumber(s, i)
       ELSE NoParse

\* the elements of an array from index i, after the elements acc
ParseElements(s, i, acc) ==
    LET element == ParseValue(s, i)
    IN IF ~element.ok THEN NoParse
       ELSE LET j == SkipWs(s, element.next)
            IN IF j > Len(s) THEN NoParse
               ELSE IF s[j] = "]" THEN Parsed(Arr(Append(acc, element.value)), j + 1)
               ELSE IF s[j] = "," THEN ParseElements(s, j + 1, Append(acc, element.value))
               ELSE NoParse

\* the members of an object from index i0, after the members acc; of two members
\* of one name the later value is kept
ParseMembers(s, i0, acc) ==
    LET i == SkipWs(s, i0)
    IN IF i > Len(s) \/ s[i] # "\"" THEN NoParse
       ELSE LET name == ParseChars(s, i + 1, <<>>)
            IN IF ~name.ok THEN NoParse
               ELSE LET colon == SkipWs(s, name.next)
                    IN IF colon > Len(s) \/ s[colon] # ":" THEN NoParse
                       ELSE LET member == ParseValue(s, colon + 1)
                            IN IF ~member.ok THEN NoParse
                               ELSE LET j == SkipWs(s, member.next)
                                        entries == Put(acc, KeyOf(name.value), member.value)
                                    IN IF j > Len(s) THEN NoParse
                                       ELSE IF s[j] = "}" THEN Parsed(Obj(entries), j + 1)
                                       ELSE IF s[j] = "," THEN ParseMembers(s, j + 1, entries)
                                       ELSE NoParse

\* JSON.parse(text): the value of the one JSON document the text holds, or a
\* SyntaxError (for the empty text too)
JsonParse(text) ==
    LET s == Chars(text)
        parsed == ParseValue(s, 1)
    IN IF parsed.ok /\ SkipWs(s, parsed.next) = Len(s) + 1
       THEN [ok |-> TRUE, value |-> parsed.value]
       ELSE [ok |-> FALSE, error |-> "SyntaxError"]

(***************************************************************************)
(* The client and its calls.                                               *)
(***************************************************************************)
Methods == {"GET", "PUT", "POST"}
CallIds == 1..NumCalls

NoResponse == [status |-> 0]
NoOutcome == [kind |-> "none"]

\* a call that has not been made
IdleCall ==
    [pc |-> "idle",          \* idle, fetch (await fetch), text (await res.text()),
                             \* json (await res.json()), done (promise settled)
     method |-> "none",
     req |-> [path |-> <<>>, query |-> Undefined],
     url |-> <<>>,           \* const url = this.url(path, query)
     timer |-> "unset",      \* unset, armed, fired, cleared
     aborted |-> FALSE,      \* controller.signal.aborted
     init |-> [method |-> "none", signal |-> FALSE, hasBody |-> FALSE],
     sent |-> 0,             \* requests handed to fetch
     res |-> NoResponse,     \* the Response fetch resolved with
     bodyUsed |-> FALSE,     \* res.bodyUsed: text() or json() has been called
     bodyRead |-> "none",    \* none, pending, ok, failed
     outcome |-> NoOutcome,  \* what the promise of the call settled with
     settled |-> 0]          \* times the promise was settled

\* a variant that arms no timer
setTimeout_Never(timer) == timer

\* setTimeout(() => controller.abort(), this.config.timeoutMs)
setTimeout(timer) == "armed"

\* a variant that never disarms the timer
clearTimeout_Skip(timer) == timer

\* clearTimeout(timeout): disarms an armed timer, no effect on one that fired
clearTimeout(timer) == IF timer = "armed" THEN "cleared" ELSE timer

\* the try/finally of the three methods: clearTimeout(timeout), then the promise
\* settles with outcome
Settle(call, outcome) ==
    [call EXCEPT !.pc = "done",
                 !.timer = clearTimeout(@),
                 !.outcome = outcome,
                 !.settled = @ + 1]

Value(v) == [kind |-> "value", value |-> v]
Failure(name) == [kind |-> name]

\* new Error(message): an error whose name is "Error" and that has no property
\* of its own besides the message
PlainError(message) == [kind |-> "Error", message |-> message]

\* a variant that throws a plain Error for a non-2xx response
JiraHttpError_Plain(method, res, requestUrl, bodyText) ==
    [kind |-> "Error",
     message |-> [method |-> method, status |-> res.status, statusText |-> res.statusText]]

\* a variant that reports the base address in place of the request address
JiraHttpError_BaseUrl(method, res, requestUrl, bodyText) ==
    [kind |-> "JiraHttpError",
     message |-> [method |-> method, status |-> res.status, statusText |-> res.statusText],
     status |-> res.status,
     url |-> client.config.baseUrl,
     bodyText |-> bodyText]

\* new JiraHttpError(`Jira ${method} failed: ${res.status} ${res.statusText}`,
\*                   { status: res.status, url, bodyText })
JiraHttpError(method, res, requestUrl, bodyText) ==
    [kind |-> "JiraHttpError",
     message |-> [method |-> method, status |-> res.status, statusText |-> res.statusText],
     status |-> res.status,
     url |-> requestUrl,
     bodyText |-> bodyText]

\* a variant of the fetch options that leaves the signal out
FetchInit_NoSignal(method) ==
    [method |-> method, headers |-> Headers(method), signal |-> FALSE,
     hasBody |-> method # "GET"]

\* the options each method hands to fetch
FetchInit(method) ==
    [method |-> method, headers |-> Headers(method), signal |-> TRUE,
     hasBody |-> method # "GET"]

\* the transport has been told to cancel the request of this call
Cancelled(call) == call.aborted /\ call.init.signal

\* await readBodyTextSafely(res): res.text() is called
AwaitText(call) == [call EXCEPT !.pc = "text", !.bodyUsed = TRUE, !.bodyRead = "pending"]

\* await res.json(): the body is read and decoded
AwaitJson(call) == [call EXCEPT !.pc = "json", !.bodyUsed = TRUE, !.bodyRead = "pending"]

\* a variant of getJson that answers 204 with an empty object, as putJson does
getJson_204Shortcut(call) ==
    IF call.res.status = 204 THEN Settle(call, Value(EmptyObject))
    ELSE IF ~ResOk(call.res) THEN AwaitText(call) ELSE AwaitJson(call)

\* a variant of getJson that sends the request once more after a non-2xx response
getJson_Retry(call) ==
    IF ~ResOk(call.res) /\ call.sent < 2
    THEN [call EXCEPT !.sent = @ + 1, !.res = NoResponse]
    ELSE IF ~ResOk(call.res) THEN AwaitText(call) ELSE AwaitJson(call)

\* getJson from the response to its next await
getJson(call) ==
    IF ~ResOk(call.res) THEN AwaitText(call) ELSE AwaitJson(call)

\* a variant of putJson without the 204 shortcut
putJson_No204(call) ==
    IF ~ResOk(call.res) THEN AwaitText(call)
    ELSE IF IsJsonContentType(call.res) THEN AwaitJson(call)
    ELSE Settle(call, Value(EmptyObject))

\* putJson from the response to its next await or its return
putJson(call) ==
    IF call.res.status = 204 THEN Settle(call, Value(EmptyObject))
    ELSE IF ~ResOk(call.res) THEN AwaitText(call)
    ELSE IF IsJsonContentType(call.res) THEN AwaitJson(call)
    ELSE Settle(call, Value(EmptyObject))

\* postJson from the response to its next await or its return
postJson(call) ==
    IF call.res.status = 204 THEN Settle(call, Value(EmptyObject))
    ELSE IF ~ResOk(call.res) THEN AwaitText(call)
    ELSE IF IsJsonContentType(call.res) THEN AwaitJson(call)
    ELSE Settle(call, Value(EmptyObject))

\* a JiraClientConfig
Config(baseUrl, auth, timeoutMs) ==
    [baseUrl |-> baseUrl, auth |-> auth, timeoutMs |-> timeoutMs]

\* the JiraClient constructor: normalizeBaseUrl throws, or the config is stored
NewJiraClient(config) ==
    LET base == normalizeBaseUrl(config.baseUrl)
    IN IF ~base.ok THEN [state |-> "threw", error |-> PlainError(base.error)]
       ELSE [state |-> "ready",
             config |-> [baseUrl |-> base.value,
                         auth |-> config.auth,
                         timeoutMs |-> IF config.timeoutMs.t = "undefined"
                                       THEN NumVal(DefaultTimeoutMs)
                                       ELSE config.timeoutMs]]

\* new JiraClient(cfgIn)
Construct ==
    /\ client.state = "new"
    /\ client' = NewJiraClient(cfgIn)
    /\ UNCHANGED <<cfgIn, calls, outside>>

\* no config: jiraClientFromEnv has not called the constructor
NoConfig == [baseUrl |-> <<>>, auth |-> [type |-> "none"], timeoutMs |-> Undefined]

\* the truthiness of a value of process.env: undefined and '' are falsy
IsSet(v) == v.t = "string" /\ v.s # <<>>

MissingBaseUrl == "Missing required env var: JIRA_BASE_URL"
MissingAuth ==
    "Missing auth env vars: set either JIRA_BEARER_TOKEN or (JIRA_EMAIL + JIRA_API_TOKEN)"

\* a variant that looks at the auth variables before the base address
jiraClientFromEnv_AuthFirst(e) ==
    IF ~IsSet(e.JIRA_BEARER_TOKEN) /\ (~IsSet(e.JIRA_EMAIL) \/ ~IsSet(e.JIRA_API_TOKEN))
    THEN [config |-> NoConfig,
          client |-> [state |-> "threw", error |-> PlainError(MissingAuth)]]
    ELSE IF ~IsSet(e.JIRA_BASE_URL)
    THEN [config |-> NoConfig,
          client |-> [state |-> "threw", error |-> PlainError(MissingBaseUrl)]]
    ELSE LET config ==
               IF IsSet(e.JIRA_BEARER_TOKEN)
               THEN Config(e.JIRA_BASE_URL.s,
                           [type |-> "bearer", token |-> e.JIRA_BEARER_TOKEN.s], Undefined)
               ELSE Config(e.JIRA_BASE_URL.s,
                           [type |-> "basic", email |-> e.JIRA_EMAIL.s,
                            apiToken |-> e.JIRA_API_TOKEN.s], Undefined)
         IN [config |-> config, client |-> NewJiraClient(config)]

\* a variant that prefers the basic credentials when both kinds are set
jiraClientFromEnv_BasicFirst(e) ==
    IF ~IsSet(e.JIRA_BASE_URL)
    THEN [config |-> NoConfig,
          client |-> [state |-> "threw", error |-> PlainError(MissingBaseUrl)]]
    ELSE IF IsSet(e.JIRA_EMAIL) /\ IsSet(e.JIRA_API_TOKEN)
    THEN LET config == Config(e.JIRA_BASE_URL.s,
                              [type |-> "basic", email |-> e.JIRA_EMAIL.s,
                               apiToken |-> e.JIRA_API_TOKEN.s], Undefined)
         IN [config |-> config, client |-> NewJiraClient(config)]
    ELSE IF IsSet(e.JIRA_BEARER_TOKEN)
    THEN LET config == Config(e.JIRA_BASE_URL.s,
                              [type |-> "bearer", token |-> e.JIRA_BEARER_TOKEN.s], Undefined)
         IN [config |-> config, client |-> NewJiraClient(config)]
    ELSE [config |-> NoConfig,
          client |-> [state |-> "threw", error |-> PlainError(MissingAuth)]]

\* jiraClientFromEnv() on the environment e: the config it hands to the
\* constructor (NoConfig when it throws before) and the client or the error
jiraClientFromEnv(e) ==
    IF ~IsSet(e.JIRA_BASE_URL)
    THEN [config |-> NoConfig,
          client |-> [state |-> "threw", error |-> PlainError(MissingBaseUrl)]]
    ELSE IF IsSet(e.JIRA_BEARER_TOKEN)
    THEN LET config == Config(e.JIRA_BASE_URL.s,
                              [type |-> "bearer", token |-> e.JIRA_BEARER_TOKEN.s], Undefined)
         IN [config |-> config, client |-> NewJiraClient(config)]
    ELSE IF ~IsSet(e.JIRA_EMAIL) \/ ~IsSet(e.JIRA_API_TOKEN)
    THEN [config |-> NoConfig,
          client |-> [state |-> "threw", error |-> PlainError(MissingAuth)]]
    ELSE LET config == Config(e.JIRA_BASE_URL.s,
                              [type |-> "basic", email |-> e.JIRA_EMAIL.s,
                               apiToken |-> e.JIRA_API_TOKEN.s], Undefined)
         IN [config |-> config, client |-> NewJiraClient(config)]

\* the server builds its client from the environment
ConstructFromEnv ==
    /\ client.state = "new"
    /\ env.t = "env"
    /\ cfgIn' = jiraClientFromEnv(env).config
    /\ client' = jiraClientFromEnv(env).client
    /\ UNCHANGED <<calls, env, adf, tool>>

\* getJson/putJson/postJson up to await fetch(...): the address is built (new URL
\* may throw, which rejects the call at once), the timer armed, the request sent
StartCall(idle, method, req) ==
    LET u == url(client.config.baseUrl, req.path, req.query)
        call == [idle EXCEPT !.method = method, !.req = req]
    IN IF ~u.ok THEN Settle(call, Failure(u.error))
       ELSE [call EXCEPT !.pc = "fetch",
                         !.url = u.href,
                         !.timer = setTimeout(@),
                         !.init = FetchInit(method),
                         !.sent = @ + 1]

\* a call of getJson, putJson or postJson made on the client
Start(c, method, req) ==
    /\ client.state = "ready"
    /\ calls[c].pc = "idle"
    /\ calls' = [calls EXCEPT ![c] = StartCall(@, method, req)]
    /\ UNCHANGED <<cfgIn, client, outside>>

\* fetch resolves with a response and the method runs on to its next await
Respond(c, res) ==
    /\ calls[c].pc = "fetch"
    /\ ~Cancelled(calls[c])
    /\ LET call == [calls[c] EXCEPT !.res = res]
       IN calls' = [calls EXCEPT ![c] =
            CASE call.method = "GET" -> getJson(call)
              [] call.method = "PUT" -> putJson(call)
              [] call.method = "POST" -> postJson(call)]
    /\ UNCHANGED <<cfgIn, client, outside>>

\* fetch rejects: the transport failed (DNS, connection refused, ...)
FetchFail(c) ==
    /\ calls[c].pc = "fetch"
    /\ ~Cancelled(calls[c])
    /\ calls' = [calls EXCEPT ![c] = Settle(@, Failure("TypeError"))]
    /\ UNCHANGED <<cfgIn, client, outside>>

\* a variant in which the calls share one AbortController: the timer of a call
\* aborts the request of every call
TimerFire_SharedController(c) ==
    /\ calls[c].timer = "armed"
    /\ calls' = [d \in CallIds |->
                   IF d = c THEN [calls[d] EXCEPT !.timer = "fired", !.aborted = TRUE]
                   ELSE [calls[d] EXCEPT !.aborted = TRUE]]
    /\ UNCHANGED <<cfgIn, client, outside>>

\* the timer of the call fires: () => controller.abort()
TimerFire(c) ==
    /\ calls[c].timer = "armed"
    /\ calls' = [calls EXCEPT ![c].timer = "fired", ![c].aborted = TRUE]
    /\ UNCHANGED <<cfgIn, client, outside>>

\* the transport honours the abort: the pending fetch, text() or json() rejects
\* with an AbortError; readBodyTextSafely catches it, the other two awaits do not
AbortReject(c) ==
    /\ calls[c].pc \in {"fetch", "text", "json"}
    /\ Cancelled(calls[c])
    /\ LET call == calls[c]
           failed == [call EXCEPT !.bodyRead = "failed"]
       IN calls' = [calls EXCEPT ![c] =
            CASE call.pc = "fetch" -> Settle(call, Failure("AbortError"))
              [] call.pc = "json" -> Settle(failed, Failure("AbortError"))
              [] call.pc = "text" ->
                   Settle(failed, JiraHttpError(call.method, call.res, call.url,
                                                readBodyTextSafely([ok |-> FALSE])))]
    /\ UNCHANGED <<cfgIn, client, outside>>

\* res.text() resolves inside readBodyTextSafely and the JiraHttpError is thrown
TextDone(c) ==
    /\ calls[c].pc = "text"
    /\ ~Cancelled(calls[c])
    /\ LET call == calls[c]
           text == readBodyTextSafely([ok |-> TRUE, text |-> call.res.body])
       IN calls' = [calls EXCEPT ![c] =
            Settle([call EXCEPT !.bodyRead = "ok"],
                   JiraHttpError(call.method, call.res, call.url, text))]
    /\ UNCHANGED <<cfgIn, client, outside>>

\* res.text() rejects inside readBodyTextSafely (the connection broke)
TextFail(c) ==
    /\ calls[c].pc = "text"
    /\ ~Cancelled(calls[c])
    /\ LET call == calls[c]
       IN calls' = [calls EXCEPT ![c] =
            Settle([call EXCEPT !.bodyRead = "failed"],
                   JiraHttpError(call.method, call.res, call.url,
                                 readBodyTextSafely([ok |-> FALSE])))]
    /\ UNCHANGED <<cfgIn, client, outside>>

\* res.json() has read the body: it resolves with the decoded value or rejects
\* with the SyntaxError of the decoder
JsonDone(c) ==
    /\ calls[c].pc = "json"
    /\ ~Cancelled(calls[c])
    /\ LET call == calls[c]
           parsed == JsonParse(call.res.body)
       IN calls' = [calls EXCEPT ![c] =
            Settle([call EXCEPT !.bodyRead = "ok"],
                   IF parsed.ok THEN Value(parsed.value) ELSE Failure(parsed.error))]
    /\ UNCHANGED <<cfgIn, client, outside>>

\* res.json() rejects because the body could not be read (the connection broke)
JsonFail(c) ==
    /\ calls[c].pc = "json"
    /\ ~Cancelled(calls[c])
    /\ calls' = [calls EXCEPT ![c] =
         Settle([calls[c] EXCEPT !.bodyRead = "failed"], Failure("TypeError"))]
    /\ UNCHANGED <<cfgIn, client, outside>>

(***************************************************************************)
(* The document validator (adf.ts) over a model of JavaScript values:      *)
(* undefined, null, strings, numbers, booleans, arrays and plain objects   *)
(* with their own keys in insertion order.                                 *)
(***************************************************************************)
DOC == <<"d", "o", "c">>

\* typeof value
TypeOf(value) ==
    CASE value.t \in {"null", "array", "object"} -> "object"
      [] OTHER -> value.t

\* !value
Falsy(value) ==
    \/ value.t \in {"undefined", "null"}
    \/ value.t = "string" /\ value.s = <<>>
    \/ value.t = "number" /\ value.n = 0
    \/ value.t = "boolean" /\ ~value.b

\* v[key] for a key that is neither an index nor a built-in property: the own
\* property of a plain object, undefined on an array or an object without it
Get(v, key) ==
    IF v.t = "object" /\ \E i \in 1..Len(v.entries) : v.entries[i].k = key
    THEN v.entries[CHOOSE i \in 1..Len(v.entries) : v.entries[i].k = key].v
    ELSE Undefined

\* x === 'doc'
IsDocString(x) == x.t = "string" /\ x.s = DOC

\* a variant that takes a null version or content for a missing one
looksLikeAdfDoc_NullIsMissing(value) ==
    IF Falsy(value) \/ TypeOf(value) # "object" THEN FALSE
    ELSE \/ IsDocString(Get(value, "type"))
         \/ Get(value, "version").t \notin {"undefined", "null"}
         \/ Get(value, "content").t \notin {"undefined", "null"}

\* looksLikeAdfDoc(value)
looksLikeAdfDoc(value) ==
    IF Falsy(value) \/ TypeOf(value) # "object" THEN FALSE
    ELSE \/ IsDocString(Get(value, "type"))
         \/ Get(value, "version").t # "undefined"
         \/ Get(value, "content").t # "undefined"

\* a call that returned, a call that threw error
Returned == [ok |-> TRUE]
Thrown(error) == [ok |-> FALSE, error |-> error]

\* new Error(`Field "${fieldNameForError}" ${rest}`), the message kept as the
\* pieces of its template
FieldError(fieldNameForError, rest) ==
    PlainError(<<"Field \"", fieldNameForError>> \o rest)

\* a variant that checks the content before the version
assertValidAdfDoc_ContentFirst(value, fieldNameForError) ==
    IF Falsy(value) \/ TypeOf(value) # "object"
    THEN Thrown(FieldError(fieldNameForError,
                       <<"\" was expected to be an ADF doc object, got ", TypeOf(value)>>))
    ELSE IF ~IsDocString(Get(value, "type"))
    THEN Thrown(FieldError(fieldNameForError, <<"\" ADF doc is missing type=\"doc\"">>))
    ELSE IF Get(value, "content").t # "array"
    THEN Thrown(FieldError(fieldNameForError, <<"\" ADF doc is missing array content">>))
    ELSE IF TypeOf(Get(value, "version")) # "number"
    THEN Thrown(FieldError(fieldNameForError, <<"\" ADF doc is missing numeric version">>))
    ELSE Returned

\* a variant that accepts any content that is present
assertValidAdfDoc_AnyContent(value, fieldNameForError) ==
    IF Falsy(value) \/ TypeOf(value) # "object"
    THEN Thrown(FieldError(fieldNameForError,
                       <<"\" was expected to be an ADF doc object, got ", TypeOf(value)>>))
    ELSE IF ~IsDocString(Get(value, "type"))
    THEN Thrown(FieldError(fieldNameForError, <<"\" ADF doc is missing type=\"doc\"">>))
    ELSE IF TypeOf(Get(value, "version")) # "number"
    THEN Thrown(FieldError(fieldNameForError, <<"\" ADF doc is missing numeric version">>))
    ELSE IF Get(value, "content").t = "undefined"
    THEN Thrown(FieldError(fieldNameForError, <<"\" ADF doc is missing array content">>))
    ELSE Returned

\* assertValidAdfDoc(value, fieldNameForError): it returns, or throws an Error
\* whose message is one of the four templates
assertValidAdfDoc(value, fieldNameForError) ==
    IF Falsy(value) \/ TypeOf(value) # "object"
    THEN Thrown(FieldError(fieldNameForError,
                       <<"\" was expected to be an ADF doc object, got ", TypeOf(value)>>))
    ELSE IF ~IsDocString(Get(value, "type"))
    THEN Thrown(FieldError(fieldNameForError, <<"\" ADF doc is missing type=\"doc\"">>))
    ELSE IF TypeOf(Get(value, "version")) # "number"
    THEN Thrown(FieldError(fieldNameForError, <<"\" ADF doc is missing numeric version">>))
    ELSE IF Get(value, "content").t # "array"
    THEN Thrown(FieldError(fieldNameForError, <<"\" ADF doc is missing array content">>))
    ELSE Returned

NotCalled == [called |-> FALSE]

\* looksLikeAdfDoc is called on the value
LooksLike ==
    /\ adf.pc = "given"
    /\ ~adf.looks.called
    /\ adf' = [adf EXCEPT !.looks = [called |-> TRUE, result |-> looksLikeAdfDoc(adf.value)]]
    /\ UNCHANGED <<cfgIn, client, calls, env, tool>>

\* assertValidAdfDoc is called on the value
AssertValid ==
    /\ adf.pc = "given"
    /\ ~adf.valid.called
    /\ adf' = [adf EXCEPT !.valid =
                 [called |-> TRUE, result |-> assertValidAdfDoc(adf.value, adf.field)]]
    /\ UNCHANGED <<cfgIn, client, calls, env, tool>>

(***************************************************************************)
(* The tool handlers of the MCP server (server.ts) that validate document  *)
(* fields before they call the client.                                     *)
(***************************************************************************)
RECURSIVE JsonStringify(_)
\* JSON.stringify(value, null, 2), the text kept as the JSON document it writes: a
\* member whose value is undefined is left out, an undefined item is written null
JsonStringify(value) ==
    CASE value.t = "object" ->
           LET kept == SelectSeq(value.entries, LAMBDA e : e.v.t # "undefined")
           IN Obj([i \in 1..Len(kept) |-> [k |-> kept[i].k, v |-> JsonStringify(kept[i].v)]])
      [] value.t = "array" ->
           Arr([i \in 1..Len(value.items) |->
                  IF value.items[i].t = "undefined" THEN Null
                  ELSE JsonStringify(value.items[i])])
      [] OTHER -> value

\* toToolResultJson(obj): the envelope of a success (it has no isError), its text
\* the JSON of obj
toToolResultJson(obj) == [isError |-> FALSE, json |-> JsonStringify(obj)]

\* toToolError(message, extra): the envelope of a failure, its text the JSON of
\* { error: message, extra } (every extra of the handlers is an object, so it is
\* always written; JSON.stringify leaves out a bodyText that is undefined)
toToolError(message, extra) ==
    [isError |-> TRUE,
     json |-> [error |-> message,
               extra |-> IF "details" \in DOMAIN extra
                         THEN [extra EXCEPT !.details =
                                 IF @.bodyText.t = "undefined"
                                 THEN [status |-> @.status, url |-> @.url] ELSE @]
                         ELSE extra]]

\* normalizeIssueKey(key)
normalizeIssueKey(key) == Trim(key)

\* a variant that reports the message of a JiraHttpError without its details
errorToPublicJson_MessageOnly(error) ==
    IF error.kind \in {"JiraHttpError", "Error"} THEN [message |-> error.message]
    ELSE [message |-> [runtime |-> error.kind]]

\* errorToPublicJson(error): message and details of a JiraHttpError, the message
\* alone of any other Error (a runtime error has a text of the runtime's choosing)
errorToPublicJson(error) ==
    IF error.kind = "JiraHttpError"
    THEN [message |-> error.message,
          details |-> [status |-> error.status, url |-> error.url,
                       bodyText |-> error.bodyText]]
    ELSE IF error.kind = "Error" THEN [message |-> error.message]
    ELSE [message |-> [runtime |-> error.kind]]

\* a variant that validates every field value, document-like or not
validateAdfInFields_Ungated(entries) ==
    LET bad == {i \in 1..Len(entries) : ~assertValidAdfDoc(entries[i].v, entries[i].k).ok}
        first == CHOOSE i \in bad : \A j \in bad : i <= j
    IN IF bad = {} THEN Returned
       ELSE assertValidAdfDoc(entries[first].v, entries[first].k)

RECURSIVE validateAdfInFields(_)
\* validateAdfInFields(fields), on Object.entries(fields): the first entry that
\* looks like a document and is not a valid one throws
validateAdfInFields(entries) ==
    IF entries = <<>> THEN Returned
    ELSE IF ~looksLikeAdfDoc(Head(entries).v) THEN validateAdfInFields(Tail(entries))
    ELSE LET checked == assertValidAdfDoc(Head(entries).v, Head(entries).k)
         IN IF checked.ok THEN validateAdfInFields(Tail(entries)) ELSE checked

\* validateAdfInFields is called on a field map whose one field holds the value
ValidateInFields ==
    /\ adf.pc = "given"
    /\ ~adf.inFields.called
    /\ adf' = [adf EXCEPT !.inFields =
                 [called |-> TRUE,
                  result |-> validateAdfInFields(<<[k |-> adf.field, v |-> adf.value]>>)]]
    /\ UNCHANGED <<cfgIn, client, calls, env, tool>>

\* a code unit of a surrogate pair that stands without its partner
LONE_SURROGATE == "U+D800"

\* encodeURIComponent(s) for a text of ASCII characters and lone surrogates: it
\* throws a URIError on a lone surrogate
EncodeURIComponent(s) ==
    LET Hex(d) == <<"0", "1", "2", "3", "4", "5", "6", "7", "8", "9",
                    "A", "B", "C", "D", "E", "F">>[d + 1]
        Code(ch) == Utf8(<<ch>>)[1]
        Unreserved(ch) ==
            \/ Code(ch) \in (48..57) \cup (65..90) \cup (97..122)
            \/ ch \in {"-", "_", ".", "!", "~", "*", "'", "(", ")"}
        Enc[i \in 0..Len(s)] ==
            IF i = 0 THEN <<>>
            ELSE Enc[i - 1] \o
                 (IF Unreserved(s[i]) THEN <<s[i]>>
                  ELSE <<"%", Hex(Code(s[i]) \div 16), Hex(Code(s[i]) % 16)>>)
    IN IF \E i \in 1..Len(s) : s[i] = LONE_SURROGATE
       THEN Thrown(Failure("URIError"))
       ELSE [ok |-> TRUE, value |-> Enc[Len(s)]]

\* s.toLowerCase() for ASCII text
ToLowerCase(s) ==
    LET Lower(ch) ==
            IF \E n \in 34..59 : Ascii[n] = ch
            THEN Ascii[32 + CHOOSE n \in 34..59 : Ascii[n] = ch]
            ELSE ch
    IN [i \in 1..Len(s) |-> Lower(s[i])]

\* s.includes(q)
Includes(s, q) ==
    \E i \in 1..(Len(s) - Len(q) + 1) : SubSeq(s, i, i + Len(q) - 1) = q

RECURSIVE Join(_)
\* list.join(',') for a list of strings
Join(items) ==
    IF items = <<>> THEN <<>>
    ELSE IF Len(items) = 1 THEN items[1].s
    ELSE items[1].s \o <<",">> \o Join(Tail(items))

ValidatingTools ==
    {"jira_update_issue_fields", "jira_create_issue", "jira_bulk_create_issues",
     "jira_bulk_edit_issues"}

\* the tools registerJiraTools registers
Tools ==
    ValidatingTools \cup
    {"jira_list_fields", "jira_get_issue", "jira_search_issues_jql", "jira_add_comment",
     "jira_get_transitions", "jira_transition_issue", "jira_bulk_get_editable_fields",
     "jira_search_users", "jira_resolve_user_account_id"}

\* the tools that address one issue by the key in their arguments
IssueKeyTools ==
    {"jira_get_issue", "jira_update_issue_fields", "jira_add_comment",
     "jira_get_transitions", "jira_transition_issue"}

\* the message of the catch block of a handler
FailedTo(name) ==
    CASE name = "jira_update_issue_fields" -> "Failed to update issue"
      [] name = "jira_create_issue" -> "Failed to create issue"
      [] name = "jira_bulk_create_issues" -> "Failed to bulk create issues"
      [] name = "jira_bulk_edit_issues" -> "Failed to bulk edit issues"
      [] name = "jira_list_fields" -> "Failed to list fields"
      [] name = "jira_get_issue" -> "Failed to get issue"
      [] name = "jira_search_issues_jql" -> "Failed to search issues (JQL)"
      [] name = "jira_add_comment" -> "Failed to add comment"
      [] name = "jira_get_transitions" -> "Failed to get transitions"
      [] name = "jira_transition_issue" -> "Failed to transition issue"
      [] name = "jira_bulk_get_editable_fields" -> "Failed to get bulk editable fields"
      [] name = "jira_search_users" -> "Failed to search users"
      [] name = "jira_resolve_user_account_id" -> "Failed to resolve user"

\* the comment body jira_add_comment sends: a string is wrapped into a document of
\* one paragraph, an object is taken as it is
CommentBody(body) ==
    IF TypeOf(body) = "string"
    THEN Obj(<<[k |-> "type", v |-> StrVal(DOC)],
               [k |-> "version", v |-> NumVal(1)],
               [k |-> "content",
                v |-> Arr(<<Obj(<<[k |-> "type", v |-> StrVal(<<"p", "a", "r", "a", "g", "r", "a", "p", "h">>)],
                                  [k |-> "content",
                                   v |-> Arr(<<Obj(<<[k |-> "type", v |-> StrVal(<<"t", "e", "x", "t">>)],
                                                     [k |-> "text", v |-> body]>>)>>)]>>)>>)]>>)
    ELSE body

\* the client call of a handler: method, path, query and body
ToolRequest(name, args) ==
    LET Api == <<"/", "r", "e", "s", "t", "/", "a", "p", "i", "/", "3">>
        IssuePath == Api \o <<"/", "i", "s", "s", "u", "e">>
        OfIssue == IssuePath \o <<SLASH>>
                   \o EncodeURIComponent(normalizeIssueKey(args.issueKey)).value
        BulkCreatePath == IssuePath \o <<"/", "b", "u", "l", "k">>
        BulkEditPath == Api \o <<"/", "b", "u", "l", "k", "/", "i", "s", "s", "u", "e", "s", "/", "f", "i", "e", "l", "d", "s">>
        UserSearchPath == Api \o <<"/", "u", "s", "e", "r", "/", "s", "e", "a", "r", "c", "h">>
        \* if (list?.length) target[key] = ...
        Joined(key, list) ==
            IF list.t = "array" /\ list.items # <<>>
            THEN <<[k |-> key, v |-> StrVal(Join(list.items))]>> ELSE <<>>
        Listed(key, list) ==
            IF list.t = "array" /\ list.items # <<>>
            THEN <<[k |-> key, v |-> list]>> ELSE <<>>
    IN
    CASE name = "jira_update_issue_fields" ->
           [method |-> "PUT",
            path |-> OfIssue,
            query |-> Query(<<[k |-> <<"n", "o", "t", "i", "f", "y", "U", "s", "e", "r", "s">>, v |-> BoolVal(FALSE)],
                              [k |-> <<"o", "v", "e", "r", "r", "i", "d", "e", "S", "c", "r", "e", "e", "n", "S", "e", "c", "u", "r", "i", "t", "y">>, v |-> BoolVal(FALSE)],
                              [k |-> <<"o", "v", "e", "r", "r", "i", "d", "e", "E", "d", "i", "t", "a", "b", "l", "e", "F", "l", "a", "g">>, v |-> BoolVal(FALSE)]>>),
            body |-> Obj(<<[k |-> "fields", v |-> args.fieldSets[1]]>>)]
      [] name = "jira_create_issue" ->
           [method |-> "POST", path |-> IssuePath, query |-> Undefined,
            body |-> Obj(<<[k |-> "fields", v |-> args.fieldSets[1]]>>)]
      [] name = "jira_bulk_create_issues" ->
           [method |-> "POST", path |-> BulkCreatePath, query |-> Undefined,
            body |-> Obj(<<[k |-> "issueUpdates",
                            v |-> Arr([i \in 1..Len(args.fieldSets) |->
                                         Obj(<<[k |-> "fields", v |-> args.fieldSets[i]]>>)])]>>)]
      [] name = "jira_bulk_edit_issues" ->
           [method |-> "POST", path |-> BulkEditPath, query |-> Undefined,
            body |-> Obj(<<[k |-> "editedFieldsInput", v |-> args.fieldSets[1]]>>)]
      [] name = "jira_list_fields" ->
           [method |-> "GET", path |-> Api \o <<"/", "f", "i", "e", "l", "d">>, query |-> Undefined,
            body |-> Undefined]
      [] name = "jira_get_issue" ->
           [method |-> "GET", path |-> OfIssue,
            query |-> Query(Joined(<<"f", "i", "e", "l", "d", "s">>, args.fields) \o Joined(<<"e", "x", "p", "a", "n", "d">>, args.expand)),
            body |-> Undefined]
      [] name = "jira_search_issues_jql" ->
           [method |-> "POST", path |-> Api \o <<"/", "s", "e", "a", "r", "c", "h">>, query |-> Undefined,
            body |-> Obj(<<[k |-> "jql", v |-> StrVal(args.jql)],
                           [k |-> "maxResults", v |-> NumVal(args.maxResults)],
                           [k |-> "startAt", v |-> NumVal(args.startAt)]>>
                         \o Listed("fields", args.fields)
                         \o Listed("expand", args.expand))]
      [] name = "jira_add_comment" ->
           [method |-> "POST", path |-> OfIssue \o <<"/", "c", "o", "m", "m", "e", "n", "t">>, query |-> Undefined,
            body |-> Obj(<<[k |-> "body", v |-> CommentBody(args.body)]>>)]
      [] name = "jira_get_transitions" ->
           [method |-> "GET", path |-> OfIssue \o <<"/", "t", "r", "a", "n", "s", "i", "t", "i", "o", "n", "s">>,
            query |-> Query(Joined(<<"e", "x", "p", "a", "n", "d">>, args.expand)), body |-> Undefined]
      [] name = "jira_transition_issue" ->
           [method |-> "POST", path |-> OfIssue \o <<"/", "t", "r", "a", "n", "s", "i", "t", "i", "o", "n", "s">>, query |-> Undefined,
            body |-> Obj(<<[k |-> "transition",
                            v |-> Obj(<<[k |-> "id", v |-> StrVal(args.transitionId)]>>)]>>)]
      [] name = "jira_bulk_get_editable_fields" ->
           [method |-> "GET", path |-> BulkEditPath,
            query |-> Query(<<[k |-> <<"i", "s", "s", "u", "e", "I", "d", "s", "O", "r", "K", "e", "y", "s">>,
                               v |-> StrVal(Join(args.issueIdsOrKeys.items))],
                              [k |-> <<"s", "e", "a", "r", "c", "h", "T", "e", "x", "t">>, v |-> args.searchText],
                              [k |-> <<"s", "t", "a", "r", "t", "i", "n", "g", "A", "f", "t", "e", "r">>, v |-> Undefined],
                              [k |-> <<"e", "n", "d", "i", "n", "g", "B", "e", "f", "o", "r", "e">>, v |-> Undefined]>>),
            body |-> Undefined]
      [] name = "jira_search_users" ->
           [method |-> "GET", path |-> UserSearchPath,
            query |-> Query(<<[k |-> <<"q", "u", "e", "r", "y">>, v |-> args.query],
                              [k |-> <<"m", "a", "x", "R", "e", "s", "u", "l", "t", "s">>, v |-> NumVal(args.maxResults)]>>),
            body |-> Undefined]
      [] name = "jira_resolve_user_account_id" ->
           [method |-> "GET", path |-> UserSearchPath,
            query |-> Query(<<[k |-> <<"q", "u", "e", "r", "y">>, v |-> args.query],
                              [k |-> <<"m", "a", "x", "R", "e", "s", "u", "l", "t", "s">>, v |-> NumVal(20)]>>),
            body |-> Undefined]

\* the handler returns result before it has called the client, after n of its
\* field maps or bodies went through the validator
EarlyReturn(result, n) == [ok |-> FALSE, result |-> result, validated |-> n]

\* the handler goes on to its client call, after n validations
Proceeds(n) == [ok |-> TRUE, validated |-> n]

\* a variant that validates every entry and reports the last one that fails
ValidateIssueUpdates_ReportLast(fieldSets, idx) ==
    LET bad == {i \in (idx + 1)..Len(fieldSets) :
                   ~validateAdfInFields(fieldSets[i].entries).ok}
        last == CHOOSE i \in bad : \A j \in bad : j <= i
    IN IF bad = {} THEN Proceeds(Len(fieldSets))
       ELSE EarlyReturn(toToolError(
              <<"ADF validation failed for issueUpdates[", last - 1, "].fields">>,
              errorToPublicJson(validateAdfInFields(fieldSets[last].entries).error)),
              Len(fieldSets))

RECURSIVE ValidateIssueUpdates(_, _)
\* the loop of jira_bulk_create_issues over args.issueUpdates.entries() from index
\* idx: the first entry whose fields fail validateAdfInFields ends the handler
\* with the error that names its index
ValidateIssueUpdates(fieldSets, idx) ==
    IF idx >= Len(fieldSets) THEN Proceeds(idx)
    ELSE LET checked == validateAdfInFields(fieldSets[idx + 1].entries)
         IN IF checked.ok THEN ValidateIssueUpdates(fieldSets, idx + 1)
            ELSE EarlyReturn(toToolError(
                   <<"ADF validation failed for issueUpdates[", idx, "].fields">>,
                   errorToPublicJson(checked.error)), idx + 1)

\* a variant that validates a comment body only if it looks like a document
ValidatedComment_Gated(args) ==
    LET commentBody == CommentBody(args.body)
        checked == assertValidAdfDoc(commentBody, "comment.body")
    IN IF args.validateAdf /\ looksLikeAdfDoc(commentBody)
       THEN IF checked.ok THEN Proceeds(1)
            ELSE EarlyReturn(toToolError(FailedTo("jira_add_comment"),
                                         errorToPublicJson(checked.error)), 1)
       ELSE Proceeds(0)

\* jira_add_comment up to its client call: the comment body is checked by
\* assertValidAdfDoc whenever validateAdf holds (typeof commentBody is 'object'
\* for a wrapped string and for an object alike)
ValidatedComment(args) ==
    LET commentBody == CommentBody(args.body)
        checked == assertValidAdfDoc(commentBody, "comment.body")
    IN IF args.validateAdf /\ TypeOf(commentBody) = "object"
       THEN IF checked.ok THEN Proceeds(1)
            ELSE EarlyReturn(toToolError(FailedTo("jira_add_comment"),
                                         errorToPublicJson(checked.error)), 1)
       ELSE Proceeds(0)

\* a variant in which the bulk edit handler does not validate
Validated_BulkEditUnchecked(name, args) ==
    IF name = "jira_add_comment" THEN ValidatedComment(args)
    ELSE IF name \notin ValidatingTools \/ ~args.validateAdf THEN Proceeds(0)
    ELSE IF name = "jira_bulk_edit_issues" THEN Proceeds(0)
    ELSE IF name = "jira_bulk_create_issues"
    THEN ValidateIssueUpdates(args.fieldSets, 0)
    ELSE LET checked == validateAdfInFields(args.fieldSets[1].entries)
         IN IF checked.ok THEN Proceeds(1)
            ELSE EarlyReturn(toToolError(FailedTo(name), errorToPublicJson(checked.error)), 1)

\* the validation of a handler: Proceeds when it goes on, or the envelope it
\* returns at once.  The bulk create handler validates the issueUpdates in index
\* order and reports the first that fails under its index; the update, create and
\* bulk edit handlers validate their one field map and the comment handler its
\* body inside the try of the handler; the other handlers validate nothing.
Validated(name, args) ==
    IF name = "jira_add_comment" THEN ValidatedComment(args)
    ELSE IF name \notin ValidatingTools \/ ~args.validateAdf THEN Proceeds(0)
    ELSE IF name = "jira_bulk_create_issues"
    THEN ValidateIssueUpdates(args.fieldSets, 0)
    ELSE LET checked == validateAdfInFields(args.fieldSets[1].entries)
         IN IF checked.ok THEN Proceeds(1)
            ELSE EarlyReturn(toToolError(FailedTo(name), errorToPublicJson(checked.error)), 1)

\* the handler up to its client call: after the validation the arguments of the
\* call are evaluated, and encodeURIComponent throws on an issue key that holds a
\* lone surrogate, which the catch of the handler turns into its envelope
BeforeCall(name, args) ==
    LET checked == Validated(name, args)
    IN IF ~checked.ok THEN checked
       ELSE IF /\ name \in IssueKeyTools
               /\ ~EncodeURIComponent(normalizeIssueKey(args.issueKey)).ok
       THEN EarlyReturn(toToolError(FailedTo(name),
                                    errorToPublicJson(Failure("URIError"))),
                        checked.validated)
       ELSE checked

\* a tool is invoked: the handler runs to its first await (the client call, made
\* as call 1) or returns its envelope without a client call
ToolCall(name, args) ==
    /\ tool.pc = "idle"
    /\ client.state = "ready"
    /\ calls[1].pc = "idle"
    /\ LET before == BeforeCall(name, args)
           request == ToolRequest(name, args)
       IN IF before.ok
          THEN /\ tool' = [pc |-> "awaiting", name |-> name, args |-> args,
                           validated |-> before.validated, clientCalls |-> 1]
               /\ calls' = [calls EXCEPT ![1] =
                              StartCall(@, request.method,
                                        [path |-> request.path, query |-> request.query,
                                         body |-> request.body])]
          ELSE /\ tool' = [pc |-> "done", name |-> name, args |-> args,
                           validated |-> before.validated, clientCalls |-> 0,
                           result |-> before.result]
               /\ calls' = calls
    /\ UNCHANGED <<cfgIn, client, env, adf>>

\* the handler has its envelope
Result(envelope) == [ok |-> TRUE, result |-> envelope]

\* reading a property of v throws a TypeError
Nullish(v) == v.t \in {"undefined", "null"}

\* (u) => ({ accountId: u.accountId, displayName: u.displayName, active: u.active,
\*           emailAddress: u.emailAddress })
ShapeUser(u) ==
    Obj(<<[k |-> "accountId", v |-> Get(u, "accountId")],
          [k |-> "displayName", v |-> Get(u, "displayName")],
          [k |-> "active", v |-> Get(u, "active")],
          [k |-> "emailAddress", v |-> Get(u, "emailAddress")]>>)

\* (u) => u.active !== false
NotInactive(u) == ~(Get(u, "active").t = "boolean" /\ ~Get(u, "active").b)

\* a variant that keeps only the users whose active flag is true
ActiveUsers_OnlyTrue(users, includeInactive) ==
    IF includeInactive THEN [ok |-> TRUE, value |-> users]
    ELSE IF users.t # "array" \/ \E i \in 1..Len(users.items) : Nullish(users.items[i])
    THEN Thrown(Failure("TypeError"))
    ELSE [ok |-> TRUE,
          value |-> Arr(SelectSeq(users.items,
                                  LAMBDA u : Get(u, "active").t = "boolean"
                                             /\ Get(u, "active").b))]

\* args.includeInactive ? users : users.filter((u) => u.active !== false): the
\* filter throws a TypeError when users is not an array or holds a null
ActiveUsers(users, includeInactive) ==
    IF includeInactive THEN [ok |-> TRUE, value |-> users]
    ELSE IF users.t # "array" \/ \E i \in 1..Len(users.items) : Nullish(users.items[i])
    THEN Thrown(Failure("TypeError"))
    ELSE [ok |-> TRUE, value |-> Arr(SelectSeq(users.items, NotInactive))]

\* jira_search_users after its client call
SearchUsersResult(args, users) ==
    LET filtered == ActiveUsers(users, args.includeInactive)
        items == filtered.value.items
    IN IF ~filtered.ok THEN filtered
       ELSE IF \/ filtered.value.t # "array"
               \/ \E i \in 1..Len(items) : Nullish(items[i])
       THEN Thrown(Failure("TypeError"))
       ELSE Result(toToolResultJson(
              Obj(<<[k |-> "count", v |-> NumVal(Len(items))],
                    [k |-> "users",
                     v |-> Arr([i \in 1..Len(items) |-> ShapeUser(items[i])])]>>)))

NoUsersFound == "No users found for query"
NoExactEmailMatch ==
    "No exact email match found (email visibility may be restricted in your Jira)"
ResolveHint ==
    "Try resolving by display name, or use the candidates list from jira_search_users to pick an accountId."

\* the candidate candidates.find((u) => u.emailAddress?.toLowerCase() === q)
\* stops at: the first whose email equals q, or the first on which the callback
\* throws (a null item, an emailAddress that is neither a string nor nullish)
FindEmailExact(items, q) ==
    LET Throws(u) ==
            \/ Nullish(u)
            \/ ~Nullish(Get(u, "emailAddress")) /\ Get(u, "emailAddress").t # "string"
        Matches_(u) ==
            /\ ~Throws(u)
            /\ Get(u, "emailAddress").t = "string"
            /\ ToLowerCase(Get(u, "emailAddress").s) = q
        stops == {i \in 1..Len(items) : Throws(items[i]) \/ Matches_(items[i])}
        at == CHOOSE i \in stops : \A j \in stops : i <= j
    IN IF stops = {} THEN [ok |-> TRUE, found |-> FALSE]
       ELSE IF Throws(items[at]) THEN Thrown(Failure("TypeError"))
       ELSE [ok |-> TRUE, found |-> TRUE, at |-> at]

\* a variant that prefers the first candidate to the email match
ResolveUserResult_FirstWins(args, users) ==
    LET filtered == ActiveUsers(users, args.includeInactive)
        candidates == filtered.value
        items == candidates.items
        q == Trim(ToLowerCase(args.query.s))
        emailExact == FindEmailExact(items, q)
        chosen == items[1]
        listed == SubSeq(items, 1, IF Len(items) < 10 THEN Len(items) ELSE 10)
    IN IF ~filtered.ok THEN filtered
       ELSE IF Nullish(candidates) THEN Thrown(Failure("TypeError"))
       ELSE IF \/ candidates.t = "array" /\ items = <<>>
               \/ candidates.t = "string" /\ candidates.s = <<>>
       THEN Result(toToolError(NoUsersFound, [query |-> args.query]))
       ELSE IF candidates.t # "array" THEN Thrown(Failure("TypeError"))
       ELSE IF ~emailExact.ok THEN emailExact
       ELSE IF args.requireEmailMatch /\ ~emailExact.found
       THEN Result(toToolError(NoExactEmailMatch,
                               [query |-> args.query, hint |-> ResolveHint]))
       ELSE IF \E i \in 1..Len(listed) : Nullish(listed[i])
       THEN Thrown(Failure("TypeError"))
       ELSE Result(toToolResultJson(
              Obj(ShapeUser(chosen).entries
                  \o <<[k |-> "candidates",
                        v |-> Arr([i \in 1..Len(listed) |-> ShapeUser(listed[i])])]>>)))

\* jira_resolve_user_account_id after its client call
ResolveUserResult(args, users) ==
    LET filtered == ActiveUsers(users, args.includeInactive)
        candidates == filtered.value
        items == candidates.items
        q == Trim(ToLowerCase(args.query.s))
        emailExact == FindEmailExact(items, q)
        chosen == IF emailExact.found THEN items[emailExact.at] ELSE items[1]
        listed == SubSeq(items, 1, IF Len(items) < 10 THEN Len(items) ELSE 10)
    IN IF ~filtered.ok THEN filtered
       ELSE IF Nullish(candidates) THEN Thrown(Failure("TypeError"))
       ELSE IF \/ candidates.t = "array" /\ items = <<>>
               \/ candidates.t = "string" /\ candidates.s = <<>>
       THEN Result(toToolError(NoUsersFound, [query |-> args.query]))
       ELSE IF candidates.t # "array" THEN Thrown(Failure("TypeError"))
       ELSE IF ~emailExact.ok THEN emailExact
       ELSE IF args.requireEmailMatch /\ ~emailExact.found
       THEN Result(toToolError(NoExactEmailMatch,
                               [query |-> args.query, hint |-> ResolveHint]))
       ELSE IF \E i \in 1..Len(listed) : Nullish(listed[i])
       THEN Thrown(Failure("TypeError"))
       ELSE Result(toToolResultJson(
              Obj(ShapeUser(chosen).entries
                  \o <<[k |-> "candidates",
                        v |-> Arr([i \in 1..Len(listed) |-> ShapeUser(listed[i])])]>>)))

\* jira_list_fields after its client call: the fields whose id or name holds the
\* lower-cased, trimmed query (all of them without one), each copied with its id,
\* name, custom and searchable, and with its schema if includeSchema
ListFieldsResult(args, fields) ==
    LET q == IF args.query.t = "undefined" THEN Undefined
             ELSE StrVal(Trim(ToLowerCase(args.query.s)))
        id(f) == Get(f, "id")
        name(f) == Get(f, "name")
        InId(f) == Includes(ToLowerCase(id(f).s), q.s)
        \* f.id.toLowerCase().includes(q) || f.name.toLowerCase().includes(q)
        Throws(f) ==
            \/ Nullish(f)
            \/ id(f).t # "string"
            \/ ~InId(f) /\ name(f).t # "string"
        Keeps(f) == InId(f) \/ Includes(ToLowerCase(name(f).s), q.s)
        filtered == IF Falsy(q) THEN fields.items ELSE SelectSeq(fields.items, Keeps)
        \* x ?? undefined
        OrUndefined(x) == IF Nullish(x) THEN Undefined ELSE x
        Shape(f) ==
            Obj(<<[k |-> "id", v |-> id(f)],
                  [k |-> "name", v |-> name(f)],
                  [k |-> "custom", v |-> OrUndefined(Get(f, "custom"))],
                  [k |-> "searchable", v |-> OrUndefined(Get(f, "searchable"))]>>
                \o (IF args.includeSchema
                    THEN <<[k |-> "schema", v |-> OrUndefined(Get(f, "schema"))]>>
                    ELSE <<>>))
    IN IF fields.t # "array" THEN Thrown(Failure("TypeError"))
       ELSE IF \E i \in 1..Len(fields.items) :
                  \/ Nullish(fields.items[i])
                  \/ ~Falsy(q) /\ Throws(fields.items[i])
       THEN Thrown(Failure("TypeError"))
       ELSE Result(toToolResultJson(
              Obj(<<[k |-> "count", v |-> NumVal(Len(filtered))],
                    [k |-> "fields",
                     v |-> Arr([i \in 1..Len(filtered) |-> Shape(filtered[i])])]>>)))

\* the handler after a client call that returned value, up to its return or to the
\* error it throws into its catch
Shaped(name, args, value) ==
    CASE name = "jira_list_fields" -> ListFieldsResult(args, value)
      [] name = "jira_search_users" -> SearchUsersResult(args, value)
      [] name = "jira_resolve_user_account_id" -> ResolveUserResult(args, value)
      [] name = "jira_update_issue_fields" ->
           Result(toToolResultJson(
             Obj(<<[k |-> "success", v |-> BoolVal(TRUE)],
                   [k |-> "issueKey", v |-> StrVal(normalizeIssueKey(args.issueKey))]>>)))
      [] name = "jira_transition_issue" ->
           Result(toToolResultJson(
             Obj(<<[k |-> "success", v |-> BoolVal(TRUE)],
                   [k |-> "issueKey", v |-> StrVal(normalizeIssueKey(args.issueKey))],
                   [k |-> "transitionId", v |-> StrVal(args.transitionId)]>>)))
      [] OTHER -> Result(toToolResultJson(value))

\* the envelope of a handler whose client call settled with outcome: the catch
\* turns the failure of the call, and an error thrown after it, into the error
\* envelope of the tool
ToolResult(name, args, outcome) ==
    IF outcome.kind # "value"
    THEN toToolError(FailedTo(name), errorToPublicJson(outcome))
    ELSE LET shaped == Shaped(name, args, outcome.value)
         IN IF shaped.ok THEN shaped.result
            ELSE toToolError(FailedTo(name), errorToPublicJson(shaped.error))

\* a variant in which the handler makes the client call once more after it failed
ToolReturn_Retry ==
    /\ tool.pc = "awaiting"
    /\ calls[1].pc = "done"
    /\ IF calls[1].outcome.kind # "value" /\ tool.clientCalls < 2
       THEN /\ tool' = [tool EXCEPT !.clientCalls = @ + 1]
            /\ calls' = [calls EXCEPT ![1] =
                           StartCall(IdleCall, calls[1].method, calls[1].req)]
       ELSE /\ tool' = [pc |-> "done", name |-> tool.name, args |-> tool.args,
                        validated |-> tool.validated, clientCalls |-> tool.clientCalls,
                        result |-> ToolResult(tool.name, tool.args, calls[1].outcome)]
            /\ calls' = calls
    /\ UNCHANGED <<cfgIn, client, env, adf>>

\* the client call has settled and the handler returns its envelope
ToolReturn ==
    /\ tool.pc = "awaiting"
    /\ calls[1].pc = "done"
    /\ tool' = [pc |-> "done", name |-> tool.name, args |-> tool.args,
                validated |-> tool.validated, clientCalls |-> tool.clientCalls,
                result |-> ToolResult(tool.name, tool.args, calls[1].outcome)]
    /\ UNCHANGED <<cfgIn, client, calls, env, adf>>

\* no environment, no validator input and no tool invocation: the values the
\* three variables keep in the specifications that are about the client alone
NoEnv == [t |-> "none"]
NoAdf == [pc |-> "none"]
IdleTool == [pc |-> "idle"]

(***************************************************************************)
(* Inputs.                                                                 *)
(***************************************************************************)
HostA == <<"a", ".", "i", "o">>
HostAPath == <<"a", ".", "i", "o", "/", "j">>
FTP == <<"f", "t", "p", ":", "/", "/">>

BearerAuth == [type |-> "bearer", token |-> <<"t", "k">>]
BasicAuth == [type |-> "basic", email |-> <<"u", "@", "a">>, apiToken |-> <<"p", "w">>]

\* the request of the call-lifecycle specification
SearchRequest ==
    [path |-> <<"/", "x">>,
     query |-> Query(<<[k |-> <<"q">>, v |-> StrVal(<<"a", " ", "b">>)],
                       [k |-> <<"s">>, v |-> Undefined],
                       [k |-> <<"n">>, v |-> NumVal(50)]>>)]
Requests == {SearchRequest}

\* base addresses of the call-lifecycle specification: one the constructor
\* rejects, one it accepts, two it accepts but new URL rejects (whitespace kept at
\* the end of the host, a space inside the host)
Bases ==
    {HostA,
     <<SP>> \o HTTPS \o HostA \o <<SLASH, SP>>,
     HTTP \o HostA \o <<SP, SLASH>>,
     HTTPS \o <<"a", SP, "b">>}
Configs == {Config(b, BearerAuth, Undefined) : b \in Bases}

Response(status, statusText, contentType, body) ==
    [status |-> status, statusText |-> statusText, contentType |-> contentType, body |-> body]

\* responses of the call-lifecycle specification
Responses ==
    {Response(200, "OK", CtJson, OkTrueText),
     Response(200, "OK", CtJsonUtf8, Lit(<<"<", "h", "t", "m", "l", ">">>)),
     Response(204, "No Content", CtJson, <<>>),
     Response(299, "", CtText, Lit(<<"O", "K">>)),
     Response(300, "Multiple Choices", CtJson, EmptyObjectText)}

(***************************************************************************)
(* The call-lifecycle specification: one client, NumCalls calls that may   *)
(* overlap in any way.                                                     *)
(***************************************************************************)
Init ==
    /\ cfgIn \in Configs
    /\ client = [state |-> "new"]
    /\ calls = [c \in CallIds |-> IdleCall]
    /\ env = NoEnv
    /\ adf = NoAdf
    /\ tool = IdleTool

Next ==
    \/ Construct
    \/ \E c \in CallIds, m \in Methods, req \in Requests : Start(c, m, req)
    \/ \E c \in CallIds, res \in Responses : Respond(c, res)
    \/ \E c \in CallIds : FetchFail(c)
    \/ \E c \in CallIds : TimerFire(c)
    \/ \E c \in CallIds : AbortReject(c)
    \/ \E c \in CallIds : TextDone(c)
    \/ \E c \in CallIds : TextFail(c)
    \/ \E c \in CallIds : JsonDone(c)
    \/ \E c \in CallIds : JsonFail(c)

Spec == Init /\ [][Next]_vars

\* the timer fires once the delay has passed, and the transport acts on an abort
Fairness ==
    \A c \in CallIds : WF_vars(TimerFire(c)) /\ WF_vars(AbortReject(c))

FairSpec == Spec /\ Fairness

(***************************************************************************)
(* The address specification: construction and address resolution over a   *)
(* wide set of base addresses, paths and queries.  Only call 1 is made and *)
(* it is followed no further than the request it sends.                    *)
(***************************************************************************)
RawBases == {pad \o scheme \o host \o tail :
                pad \in SeqsUpTo({SP, TAB}, MaxPad),
                scheme \in {HTTP, HTTPS, FTP, <<>>, <<"h", "t", "t", "p", ":", "/">>},
                host \in {HostA, HostAPath, <<>>},
                tail \in SeqsUpTo({SLASH, SP, TAB}, MaxTail)}

UrlRequests ==
    {[path |-> p, query |-> q] :
        p \in {<<"/", "x">>, <<"x">>, <<>>}, q \in {Undefined, SearchRequest.query}}
UrlConfigs ==
    {Config(b, BearerAuth, Undefined) : b \in RawBases}
    \cup {Config(b, BasicAuth, NumVal(1)) : b \in RawBases}

InitUrl ==
    /\ cfgIn \in UrlConfigs
    /\ client = [state |-> "new"]
    /\ calls = [c \in CallIds |-> IdleCall]
    /\ env = NoEnv
    /\ adf = NoAdf
    /\ tool = IdleTool

NextUrl ==
    \/ Construct
    \/ \E m \in Methods, req \in UrlRequests : Start(1, m, req)

SpecUrl == InitUrl /\ [][NextUrl]_vars

(***************************************************************************)
(* The error-body specification: one call that receives a non-2xx response *)
(* whose body is short, exactly at the cap, or beyond it.                  *)
(***************************************************************************)
BodyTexts ==
    {<<>>,
     <<Run("x", 1)>>,
     <<Run("x", BodyTextCap - 1)>>,
     <<Run("x", BodyTextCap)>>,
     <<Run("x", BodyTextCap + 1)>>,
     <<Run("x", 2 * BodyTextCap)>>,
     <<Run("x", BodyTextCap - 1), Run("y", 1)>>,
     <<Run("x", BodyTextCap - 1), Run("y", 1), Run("z", 1)>>,
     <<Run("x", BodyTextCap - 1), Run("y", 2)>>,
     <<Run("x", BodyTextCap), Run("y", 1)>>,
     <<Run("y", 1), Run("x", BodyTextCap)>>,
     <<Run("x", 7), Run("y", BodyTextCap), Run("z", 3)>>}
BodyResponses ==
    {Response(400, "Bad Request", CtText, b) : b \in BodyTexts}
    \cup {Response(500, "Internal Server Error", CtJson, b) : b \in BodyTexts}

InitBody ==
    /\ cfgIn = Config(HTTPS \o HostA \o <<SLASH>>, BearerAuth, Undefined)
    /\ client = [state |-> "new"]
    /\ calls = [c \in CallIds |-> IdleCall]
    /\ env = NoEnv
    /\ adf = NoAdf
    /\ tool = IdleTool

NextBody ==
    \/ Construct
    \/ \E m \in Methods, req \in Requests : Start(1, m, req)
    \/ \E res \in BodyResponses : Respond(1, res)
    \/ TimerFire(1)
    \/ AbortReject(1)
    \/ TextDone(1)
    \/ TextFail(1)

SpecBody == InitBody /\ [][NextBody]_vars

(***************************************************************************)
(* The query specification: one call on a client with a plain base         *)
(* address, over query maps of up to MaxParams entries whose keys and      *)
(* values hold the characters the serializer treats specially.             *)
(***************************************************************************)
RECURSIVE EntryLists(_)
\* the entry lists of the objects with n own keys: keys are distinct, in
\* insertion order
EntryLists(n) ==
    IF n = 0 THEN {<<>>}
    ELSE UNION {{Append(es, [k |-> k, v |-> v]) :
                    k \in {<<"q">>, <<"a", "&", "b">>, <<"k", "=", SP>>}
                          \ {es[i].k : i \in 1..Len(es)},
                    v \in {Undefined, StrVal(<<"&", "+", "=">>),
                           StrVal(<<"%", "2", "6", SLASH>>), StrVal(<<>>),
                           NumVal(0), BoolVal(FALSE)}} :
                 es \in EntryLists(n - 1)}

QueryMaps ==
    {Undefined} \cup {Query(es) : es \in UNION {EntryLists(n) : n \in 0..MaxParams}}

InitQuery ==
    /\ cfgIn = Config(HTTPS \o HostA, BasicAuth, Undefined)
    /\ client = [state |-> "new"]
    /\ calls = [c \in CallIds |-> IdleCall]
    /\ env = NoEnv
    /\ adf = NoAdf
    /\ tool = IdleTool

NextQuery ==
    \/ Construct
    \/ \E m \in Methods, q \in QueryMaps : Start(1, m, [path |-> <<SLASH, "x">>, query |-> q])

SpecQuery == InitQuery /\ [][NextQuery]_vars

(***************************************************************************)
(* The authorization specification: clients over both auth variants, each  *)
(* making calls that go no further than the request they send.             *)
(***************************************************************************)
Auths ==
    {[type |-> "bearer", token |-> t] : t \in {<<"t", "k">>, <<"a", "b", "c", "1", "2", "3">>}}
    \cup {[type |-> "basic", email |-> e, apiToken |-> t] :
            e \in {<<"u", "@", "a">>, <<"a", "@", "b", ".", "c", "o", "m">>},
            t \in {<<"p", "w">>, <<"t", "o", "k">>, <<"t">>}}

InitAuth ==
    /\ cfgIn \in {Config(HTTPS \o HostA, a, Undefined) : a \in Auths}
    /\ client = [state |-> "new"]
    /\ calls = [c \in CallIds |-> IdleCall]
    /\ env = NoEnv
    /\ adf = NoAdf
    /\ tool = IdleTool

NextAuth ==
    \/ Construct
    \/ \E c \in CallIds, m \in Methods, req \in Requests : Start(c, m, req)

SpecAuth == InitAuth /\ [][NextAuth]_vars

(***************************************************************************)
(* The environment specification: the client is built by                   *)
(* jiraClientFromEnv from every combination of the four variables being    *)
(* unset, empty or set, then used for one call.                            *)
(***************************************************************************)
Envs ==
    {[t |-> "env", JIRA_BASE_URL |-> b, JIRA_BEARER_TOKEN |-> t, JIRA_EMAIL |-> e,
      JIRA_API_TOKEN |-> a] :
        b \in {Undefined, StrVal(<<>>), StrVal(HTTPS \o HostA \o <<SLASH>>), StrVal(HostA)},
        t \in {Undefined, StrVal(<<>>), StrVal(<<"t", "k">>)},
        e \in {Undefined, StrVal(<<>>), StrVal(<<"u", "@", "a">>)},
        a \in {Undefined, StrVal(<<>>), StrVal(<<"p", "w">>)}}

InitEnv ==
    /\ env \in Envs
    /\ cfgIn = NoConfig
    /\ client = [state |-> "new"]
    /\ calls = [c \in CallIds |-> IdleCall]
    /\ adf = NoAdf
    /\ tool = IdleTool

NextEnv ==
    \/ ConstructFromEnv
    \/ \E m \in Methods, req \in Requests : Start(1, m, req)

SpecEnv == InitEnv /\ [][NextEnv]_vars

(***************************************************************************)
(* The validator specification: looksLikeAdfDoc and assertValidAdfDoc on   *)
(* one value out of non-objects, arrays and objects with every combination *)
(* of a missing, right or wrong type, version and content.                 *)
(***************************************************************************)
Paragraph == Obj(<<[k |-> "type", v |-> StrVal(<<"p">>)]>>)
TinyDoc ==
    Obj(<<[k |-> "type", v |-> StrVal(DOC)], [k |-> "version", v |-> NumVal(1)],
          [k |-> "content", v |-> Arr(<<>>)]>>)

AdfValues ==
    LET Member(key, v) == IF v.t = "undefined" THEN <<>> ELSE <<[k |-> key, v |-> v]>>
    IN {Obj(Member("type", ty) \o Member("version", ve) \o Member("content", co)) :
          ty \in {Undefined, StrVal(DOC), StrVal(<<"p">>), Null},
          ve \in {Undefined, NumVal(1), NumVal(0), Null, StrVal(<<"1">>)},
          co \in {Undefined, Arr(<<>>), Arr(<<Paragraph>>), Null, StrVal(<<"x">>), Obj(<<>>)}}
       \cup {Obj(<<[k |-> "text", v |-> StrVal(DOC)]>>)}
       \cup {Undefined, Null, StrVal(<<>>), StrVal(DOC), NumVal(0), NumVal(1),
             BoolVal(TRUE), BoolVal(FALSE)}
       \cup {Arr(<<>>), Arr(<<TinyDoc>>), Arr(<<StrVal(DOC), NumVal(1)>>)}

InitAdf ==
    /\ adf \in {[pc |-> "given", value |-> v, field |-> f, looks |-> NotCalled,
                 valid |-> NotCalled, inFields |-> NotCalled] :
                    v \in AdfValues, f \in {"description", "comment.body"}}
    /\ cfgIn = NoConfig
    /\ client = [state |-> "new"]
    /\ calls = [c \in CallIds |-> IdleCall]
    /\ env = NoEnv
    /\ tool = IdleTool

NextAdf == LooksLike \/ AssertValid \/ ValidateInFields

SpecAdf == InitAdf /\ [][NextAdf]_vars

(***************************************************************************)
(* The tool specification: one invocation of a validating tool on a ready  *)
(* client, over field maps of up to MaxFields entries (up to MaxIssues     *)
(* maps of at most one entry for the bulk create), followed to the         *)
(* envelope the handler returns.                                           *)
(***************************************************************************)
RECURSIVE FieldLists(_)
\* the entry lists of the field maps with n fields: a field is a text, a valid
\* document or a document by its type that has neither version nor content
FieldLists(n) ==
    IF n = 0 THEN {<<>>}
    ELSE UNION {{Append(es, [k |-> k, v |-> v]) :
                    k \in {"summary", "description", "environment"}
                          \ {es[i].k : i \in 1..Len(es)},
                    v \in {StrVal(<<"x">>), TinyDoc,
                          Obj(<<[k |-> "type", v |-> StrVal(DOC)]>>)}} :
                 es \in FieldLists(n - 1)}

\* the arguments of a tool that takes one field map, and those of the bulk create
\* (per issue a field map with no field or with a description)
FieldArgs ==
    {[validateAdf |-> va, issueKey |-> <<SP, "K", "-", "1">>, fieldSets |-> <<Obj(es)>>] :
        va \in BOOLEAN, es \in UNION {FieldLists(n) : n \in 0..MaxFields}}
BulkArgs ==
    {[validateAdf |-> va, issueKey |-> <<>>, fieldSets |-> fs] :
        va \in BOOLEAN,
        fs \in SeqsUpTo({Obj(es) : es \in {e \in FieldLists(0) \cup FieldLists(1) :
                                              \A i \in 1..Len(e) : e[i].k = "description"}},
                        MaxIssues) \ {<<>>}}

\* the arguments a validating tool may be invoked with
ToolArgs(name) == IF name = "jira_bulk_create_issues" THEN BulkArgs ELSE FieldArgs

InitTool ==
    /\ cfgIn = Config(HTTPS \o HostA, BearerAuth, Undefined)
    /\ client = [state |-> "new"]
    /\ calls = [c \in CallIds |-> IdleCall]
    /\ env = NoEnv
    /\ adf = NoAdf
    /\ tool = IdleTool

NextTool ==
    \/ Construct
    \/ \E name \in ValidatingTools : \E args \in ToolArgs(name) : ToolCall(name, args)
    \/ \E res \in {Response(201, "Created", CtJson, OkTrueText),
                   Response(400, "Bad Request", CtJson, EmptyObjectText)} : Respond(1, res)
    \/ FetchFail(1)
    \/ TimerFire(1)
    \/ AbortReject(1)
    \/ TextDone(1)
    \/ TextFail(1)
    \/ JsonDone(1)
    \/ JsonFail(1)
    \/ ToolReturn

SpecTool == InitTool /\ [][NextTool]_vars

(***************************************************************************)
(* The handler specification: one invocation of any of the tools on a      *)
(* ready client, with a few arguments per tool, followed to the envelope   *)
(* the handler returns.  The remote answers with a list of fields, a list  *)
(* of users, an object, no content or an error.                            *)
(***************************************************************************)
RECURSIVE JsonText(_)
\* the characters of a JSON text of value, as a remote writes it (no layout)
JsonText(value) ==
    LET Quoted(s) ==
            <<"\"">> \o
            (LET Esc[i \in 0..Len(s)] ==
                   IF i = 0 THEN <<>>
                   ELSE Esc[i - 1] \o (IF s[i] \in {"\"", "\\"} THEN <<"\\", s[i]>>
                                       ELSE <<s[i]>>)
             IN Esc[Len(s)])
            \o <<"\"">>
        Members[i \in 0..(IF value.t = "object" THEN Len(value.entries) ELSE 0)] ==
            IF i = 0 THEN <<>>
            ELSE Members[i - 1] \o (IF i = 1 THEN <<>> ELSE <<",">>)
                 \o Quoted(KeySpelling[value.entries[i].k]) \o <<":">>
                 \o JsonText(value.entries[i].v)
        Elements[i \in 0..(IF value.t = "array" THEN Len(value.items) ELSE 0)] ==
            IF i = 0 THEN <<>>
            ELSE Elements[i - 1] \o (IF i = 1 THEN <<>> ELSE <<",">>)
                 \o JsonText(value.items[i])
    IN CASE value.t = "object" -> <<"{">> \o Members[Len(value.entries)] \o <<"}">>
         [] value.t = "array" -> <<"[">> \o Elements[Len(value.items)] \o <<"]">>
         [] value.t = "string" -> Quoted(value.s)
         [] value.t = "number" -> Decimal(value.n)
         [] value.t = "boolean" -> String(value)
         [] value.t = "null" -> <<"n", "u", "l", "l">>

\* a user as the remote returns it; an undefined property is left out
User(accountId, active, emailAddress) ==
    JsonStringify(Obj(<<[k |-> "accountId", v |-> StrVal(accountId)],
                        [k |-> "active", v |-> active],
                        [k |-> "emailAddress", v |-> emailAddress]>>))

\* the issue keys of the model: one to trim and one that holds a lone surrogate
IssueKeys == {<<SP, "K", "-", "1">>, <<"K", LONE_SURROGATE>>}

\* the arguments the handler specification invokes a tool with
HandlerArgs(name) ==
    CASE name = "jira_list_fields" ->
           {[query |-> q, includeSchema |-> s] :
               q \in {Undefined, StrVal(<<" ", "S", "u", "m">>)}, s \in BOOLEAN}
      [] name = "jira_get_issue" ->
           {[issueKey |-> key, fields |-> f, expand |-> Undefined] :
               key \in IssueKeys,
               f \in {Undefined, Arr(<<StrVal(<<"a">>), StrVal(<<"b">>)>>)}}
      [] name = "jira_search_issues_jql" ->
           {[jql |-> <<"x", "=", "1">>, maxResults |-> 50, startAt |-> 0,
             fields |-> f, expand |-> Undefined] :
               f \in {Arr(<<>>), Arr(<<StrVal(<<"a">>)>>)}}
      [] name = "jira_add_comment" ->
           {[issueKey |-> key, body |-> b, validateAdf |-> va] :
               key \in IssueKeys, va \in BOOLEAN,
               b \in {StrVal(<<"h", "i">>), TinyDoc, Obj(<<[k |-> "type", v |-> StrVal(DOC)]>>),
                      Obj(<<[k |-> "text", v |-> StrVal(DOC)]>>)}}
      [] name = "jira_get_transitions" ->
           {[issueKey |-> key, expand |-> e] :
               key \in IssueKeys, e \in {Undefined, Arr(<<StrVal(<<"a">>)>>)}}
      [] name = "jira_transition_issue" ->
           {[issueKey |-> key, transitionId |-> <<"3", "1">>] : key \in IssueKeys}
      [] name = "jira_bulk_get_editable_fields" ->
           {[issueIdsOrKeys |-> Arr(<<StrVal(<<"K", "-", "1">>), StrVal(<<"K", "-", "2">>)>>),
             searchText |-> t] : t \in {Undefined, StrVal(<<"s">>)}}
      [] name = "jira_search_users" ->
           {[query |-> StrVal(<<"A", "@", "x">>), maxResults |-> 50, includeInactive |-> i] :
               i \in BOOLEAN}
      [] name = "jira_resolve_user_account_id" ->
           {[query |-> StrVal(<<"A", "@", "x">>), requireEmailMatch |-> r,
             includeInactive |-> i] : r \in BOOLEAN, i \in BOOLEAN}
      [] name = "jira_bulk_create_issues" ->
           {a \in BulkArgs : Len(a.fieldSets) = 1}
      [] name = "jira_update_issue_fields" ->
           {[a EXCEPT !.issueKey = key] :
               a \in {b \in FieldArgs : Len(b.fieldSets[1].entries) = 0}, key \in IssueKeys}
      [] OTHER ->
           {a \in FieldArgs :
               /\ Len(a.fieldSets[1].entries) <= 1
               /\ \A i \in 1..Len(a.fieldSets[1].entries) :
                     a.fieldSets[1].entries[i].k = "description"}

\* what the remote answers in the handler specification
HandlerResponses ==
    {Response(200, "OK", CtJson,
              Lit(JsonText(Arr(<<User(<<"u", "1">>, BoolVal(FALSE), Undefined),
                                 User(<<"u", "2">>, Undefined, StrVal(<<"a", "@", "X">>))>>)))),
     Response(200, "OK", CtJson,
              Lit(JsonText(Arr(<<Obj(<<[k |-> "id", v |-> StrVal(<<"s", "u", "m", "m", "a", "r", "y">>)],
                                      [k |-> "name", v |-> StrVal(<<"S", "u", "m">>)],
                                      [k |-> "custom", v |-> Null]>>)>>)))),
     Response(200, "OK", CtJson, OkTrueText),
     Response(204, "No Content", Null, <<>>),
     Response(400, "Bad Request", CtJson, EmptyObjectText)}

InitHandlers ==
    /\ cfgIn = Config(HTTPS \o HostA, BearerAuth, Undefined)
    /\ client = [state |-> "new"]
    /\ calls = [c \in CallIds |-> IdleCall]
    /\ env = NoEnv
    /\ adf = NoAdf
    /\ tool = IdleTool

NextHandlers ==
    \/ Construct
    \/ \E name \in Tools : \E args \in HandlerArgs(name) : ToolCall(name, args)
    \/ \E res \in HandlerResponses : Respond(1, res)
    \/ FetchFail(1)
    \/ TimerFire(1)
    \/ AbortReject(1)
    \/ TextDone(1)
    \/ TextFail(1)
    \/ JsonDone(1)
    \/ JsonFail(1)
    \/ ToolReturn

SpecHandlers == InitHandlers /\ [][NextHandlers]_vars

(***************************************************************************)
(* The user specification: jira_search_users and                           *)
(* jira_resolve_user_account_id on a ready client, the remote answering    *)
(* with a list of up to MaxUsers users (active, inactive or without the    *)
(* flag; with the email asked for, another one or none) or with a list of  *)
(* more than ten users.                                                    *)
(***************************************************************************)
\* the account id of the i-th user of a remote list
AccountId(i) == <<"u">> \o Decimal(i)

RECURSIVE UserLists(_)
\* the remote lists of n users
UserLists(n) ==
    IF n = 0 THEN {<<>>}
    ELSE {Append(us, User(AccountId(n), a, e)) :
             us \in UserLists(n - 1),
             a \in {Undefined, BoolVal(TRUE), BoolVal(FALSE)},
             e \in {Undefined, StrVal(<<"a", "@", "X">>), StrVal(<<"b", "@", "x">>)}}

\* lists of more than ten users: all active, the email asked for with none of
\* them, with the last one, or with the second one
LongLists ==
    {[i \in 1..(9 + MaxUsers) |->
        User(AccountId(i), BoolVal(TRUE),
             IF i = at THEN StrVal(<<"A", "@", "x">>) ELSE Undefined)] :
       at \in {0, 2, 9 + MaxUsers}}

\* the response bodies of the user specification
UserBodies ==
    {Lit(JsonText(Arr(us))) : us \in LongLists \cup UNION {UserLists(n) : n \in 0..MaxUsers}}

UserArgs ==
    [jira_search_users |->
        {[query |-> StrVal(<<"A", "@", "x">>), maxResults |-> 50, includeInactive |-> i] :
            i \in BOOLEAN},
     jira_resolve_user_account_id |->
        {[query |-> StrVal(<<" ", "A", "@", "x", " ">>), requireEmailMatch |-> r,
          includeInactive |-> i] : r \in BOOLEAN, i \in BOOLEAN}]

InitUsers ==
    /\ cfgIn = Config(HTTPS \o HostA, BearerAuth, Undefined)
    /\ client = [state |-> "new"]
    /\ calls = [c \in CallIds |-> IdleCall]
    /\ env = NoEnv
    /\ adf = NoAdf
    /\ tool = IdleTool

NextUsers ==
    \/ Construct
    \/ \E name \in DOMAIN UserArgs : \E args \in UserArgs[name] : ToolCall(name, args)
    \/ \E body \in UserBodies : Respond(1, Response(200, "OK", CtJson, body))
    \/ JsonDone(1)
    \/ ToolReturn

SpecUsers == InitUsers /\ [][NextUsers]_vars

(***************************************************************************)
(* The failure specification: a client that is built or whose constructor  *)
(* throws, one validated value and one call, so that the failures of all   *)
(* kinds are raised.                                                       *)
(***************************************************************************)


InitErrors ==
    /\ cfgIn \in {Config(HostA, BearerAuth, Undefined),
                  Config(HTTPS \o HostA, BearerAuth, Undefined)}
    /\ adf \in {[pc |-> "given", value |-> v, field |-> "description",
                 looks |-> NotCalled, valid |-> NotCalled] :
                    v \in {TinyDoc, Paragraph, Null, StrVal(DOC), Arr(<<>>),
                           Obj(<<[k |-> "type", v |-> StrVal(DOC)]>>)}}
    /\ client = [state |-> "new"]
    /\ calls = [c \in CallIds |-> IdleCall]
    /\ env = NoEnv
    /\ tool = IdleTool

NextErrors ==
    \/ Construct
    \/ AssertValid
    \/ \E m \in Methods, req \in Requests : Start(1, m, req)
    \/ \E res \in Responses : Respond(1, res)
    \/ FetchFail(1)
    \/ TimerFire(1)
    \/ AbortReject(1)
    \/ TextDone(1)
    \/ TextFail(1)
    \/ JsonDone(1)
    \/ JsonFail(1)

SpecErrors == InitErrors /\ [][NextErrors]_vars

(***************************************************************************)
(* Properties.                                                             *)
(***************************************************************************)
Done(c) == calls[c].pc = "done"
Received(c) == calls[c].res.status # 0

\* C1: in every way a call of getJson, putJson or postJson ends, the timer it armed
\* is no longer armed once the call has resolved, and the timer of a resolved call
\* never changes again (it does not fire after the call has resolved).
C1_TimerDisarmed ==
    /\ [](\A c \in CallIds : Done(c) => calls[c].timer # "armed")
    /\ [][\A c \in CallIds : Done(c) => calls'[c].timer = calls[c].timer]_vars

\* two calls have resolved with their timers cleared, one with a result and one
\* with a JiraHttpError
C1_Witness ==
    \E c, d \in CallIds :
        /\ Done(c) /\ calls[c].timer = "cleared" /\ calls[c].outcome.kind = "value"
        /\ Done(d) /\ calls[d].timer = "cleared" /\ calls[d].outcome.kind = "JiraHttpError"

\* C2 as claimed: a call whose timer fired before it completed fails with the
\* cancellation error, never with a JiraHttpError and never with a result.
C2_TimeoutIsAbortError ==
    \A c \in CallIds :
        (Done(c) /\ calls[c].timer = "fired") =>
            calls[c].aborted /\ calls[c].outcome.kind = "AbortError"

\* C2 as amended: a call whose timer fired before it completed has its request
\* cancelled and never yields a result; it fails with the cancellation error (no
\* status) when the timer fired while the response was awaited or while a 2xx body
\* was being decoded, and with the JiraHttpError of the response, without body
\* text, when it fired while the body of a non-2xx response was being read.
C2_TimeoutOutcome ==
    \A c \in CallIds :
        (Done(c) /\ calls[c].timer = "fired") =>
            /\ calls[c].aborted
            /\ IF Received(c) /\ ~ResOk(calls[c].res)
               THEN /\ calls[c].outcome.kind = "JiraHttpError"
                    /\ calls[c].outcome.status = calls[c].res.status
                    /\ calls[c].outcome.bodyText.t = "undefined"
               ELSE calls[c].outcome = Failure("AbortError")

\* one call timed out while awaiting the response, another while the body of a
\* non-2xx response was being read
C2_Witness ==
    \E c, d \in CallIds :
        /\ Done(c) /\ calls[c].timer = "fired" /\ ~Received(c)
        /\ calls[c].outcome.kind = "AbortError"
        /\ Done(d) /\ calls[d].timer = "fired" /\ Received(d)
        /\ calls[d].outcome.kind = "JiraHttpError"

\* C3: every call that was made eventually resolves (given that its timer fires
\* and the transport acts on the abort): no call stays in flight for ever, so
\* again and again every call made so far has resolved.  A call resolves once,
\* and with one of: a result, a JiraHttpError, the cancellation error, or a
\* generic failure.
C3_ResolvesOnce ==
    /\ []<>(\A c \in CallIds : calls[c].pc \in {"idle", "done"})
    /\ [](\A c \in CallIds :
            /\ calls[c].settled = IF Done(c) THEN 1 ELSE 0
            /\ calls[c].outcome.kind \in
                 IF Done(c)
                 THEN {"value", "JiraHttpError", "AbortError", "TypeError", "SyntaxError"}
                 ELSE {"none"})

\* a call resolved although the remote never answered
C3_Witness ==
    \E c \in CallIds :
        /\ Done(c) /\ ~Received(c) /\ calls[c].sent = 1
        /\ calls[c].timer = "fired" /\ calls[c].settled = 1

\* C4: a call that received a response with a status outside 200..299 fails with
\* a JiraHttpError whose status is the status of the response, whose url is the
\* resolved request address (base + path + encoded query, the address handed to
\* fetch) and whose message names the method, the status and the status text; a
\* call that yields a result received a 2xx response.
C4_HttpError ==
    \A c \in CallIds :
        LET call == calls[c] IN
        /\ (Done(c) /\ Received(c) /\ ~ResOk(call.res)) =>
              /\ call.outcome.kind = "JiraHttpError"
              /\ call.outcome.status = call.res.status
              /\ call.outcome.url =
                   url(client.config.baseUrl, call.req.path, call.req.query).href
              /\ call.outcome.message.method = call.method
              /\ call.outcome.message.method = call.init.method
              /\ call.outcome.message.status = call.res.status
              /\ call.outcome.message.statusText = call.res.statusText
        /\ call.outcome.kind = "value" => (Received(c) /\ ResOk(call.res))

\* a PUT and a GET have both failed on the status 300, just outside the 2xx range
C4_Witness ==
    \E c, d \in CallIds :
        /\ Done(c) /\ calls[c].method = "PUT" /\ calls[c].res.status = 300
        /\ calls[c].outcome.kind = "JiraHttpError"
        /\ Done(d) /\ calls[d].method = "GET" /\ calls[d].res.status = 300
        /\ calls[d].outcome.kind = "JiraHttpError"

\* the j-th character of the truncation marker
MarkerChar(j) == TruncationMarker[j].ch

\* C5: when the body of a non-2xx response has been read, the bodyText of the
\* JiraHttpError is the body itself if the body has at most 20,000 characters;
\* otherwise it has 20,000 characters and the marker, its first 20,000 characters
\* are those of the body and the marker follows them.
C5_BodyText ==
    \A c \in CallIds :
        LET call == calls[c]
            body == call.res.body
            bodyText == call.outcome.bodyText
        IN (Done(c) /\ Received(c) /\ ~ResOk(call.res) /\ call.bodyRead = "ok") =>
              /\ call.outcome.kind = "JiraHttpError"
              /\ bodyText.t = "string"
              /\ IF TextLen(body) <= 20000
                 THEN bodyText.s = body
                 ELSE /\ TextLen(bodyText.s) = 20000 + Len(TruncationMarker)
                      /\ \A i \in 1..20000 : CharAt(bodyText.s, i) = CharAt(body, i)
                      /\ \A j \in 1..Len(TruncationMarker) :
                            CharAt(bodyText.s, 20000 + j) = MarkerChar(j)

\* a body of 20,001 characters whose last two characters differ from the rest has
\* been cut
C5_Witness ==
    \E c \in CallIds :
        /\ Done(c) /\ calls[c].bodyRead = "ok"
        /\ calls[c].res.body = <<Run("x", BodyTextCap - 1), Run("y", 1), Run("z", 1)>>
        /\ calls[c].outcome.kind = "JiraHttpError"
        /\ calls[c].outcome.bodyText.t = "string"

\* C6: when a non-2xx response was received and reading its body failed (the read
\* broke, or the timer cancelled it), the call still fails with the JiraHttpError of
\* that response: its status, the request address, and no bodyText.
C6_BodyReadFailure ==
    \A c \in CallIds :
        LET call == calls[c] IN
        (Done(c) /\ Received(c) /\ ~ResOk(call.res) /\ call.bodyRead = "failed") =>
            /\ call.outcome.kind = "JiraHttpError"
            /\ call.outcome.status = call.res.status
            /\ call.outcome.url = call.url
            /\ call.outcome.bodyText.t = "undefined"

\* the body read of one call broke, that of another was cancelled by its timer
C6_Witness ==
    \E c, d \in CallIds :
        /\ Done(c) /\ calls[c].bodyRead = "failed" /\ calls[c].timer = "cleared"
        /\ calls[c].outcome.kind = "JiraHttpError"
        /\ Done(d) /\ calls[d].bodyRead = "failed" /\ calls[d].timer = "fired"
        /\ calls[d].outcome.kind = "JiraHttpError"

\* C7: putJson and postJson on a 2xx response: with status 204 or a content type
\* that is not JSON the call has returned an empty object without reading the
\* body; otherwise the body is read, and the result, once the body has been read
\* and decoded, is the decoded body.
C7_PutPostSuccess ==
    \A c \in CallIds :
        LET call == calls[c] IN
        (call.method \in {"PUT", "POST"} /\ Received(c) /\ ResOk(call.res)) =>
            IF call.res.status = 204 \/ ~IsJsonContentType(call.res)
            THEN /\ Done(c)
                 /\ call.outcome = Value(EmptyObject)
                 /\ ~call.bodyUsed
            ELSE /\ call.bodyUsed
                 /\ (Done(c) /\ call.bodyRead = "ok" /\ JsonParse(call.res.body).ok) =>
                        call.outcome = Value(JsonParse(call.res.body).value)
                 /\ call.outcome.kind = "value" =>
                        call.outcome.value = JsonParse(call.res.body).value

\* a PUT got 204 and returned {}, a POST got JSON and returned what it decoded
C7_Witness ==
    \E c, d \in CallIds :
        /\ calls[c].method = "PUT" /\ calls[c].res.status = 204
        /\ calls[c].outcome = Value(EmptyObject)
        /\ calls[d].method = "POST" /\ calls[d].res.status = 200
        /\ calls[d].outcome = Value(OkTrueObject)

\* C8: the base address a constructed client stores has no trailing slash and no
\* leading or trailing whitespace.
C8_StoredBaseNormalized ==
    client.state = "ready" =>
        LET base == client.config.baseUrl IN
        /\ base # <<>>
        /\ base[Len(base)] # SLASH
        /\ ~IsWhitespace(base[1])
        /\ ~IsWhitespace(base[Len(base)])

HasScheme(s) == StartsWith(s, HTTP) \/ StartsWith(s, HTTPS)

\* C9: the constructor throws exactly when the trimmed, slash-stripped base
\* address starts with neither http:// nor https://; the base address it stores
\* starts with one of the two; and no request has been sent when it returns or
\* throws.
C9_Construction ==
    /\ [](client.state # "new" =>
            (client.state = "threw" <=>
                ~HasScheme(StripTrailingSlashes(Trim(cfgIn.baseUrl)))))
    /\ [](client.state = "ready" => HasScheme(client.config.baseUrl))
    /\ [](client.state # "ready" => \A c \in CallIds : calls[c].sent = 0)
    /\ [][client.state = "new" => \A c \in CallIds : calls'[c].sent = 0]_vars

\* the constructor threw on an address that starts with http:// before, but not
\* after, its trailing slashes are stripped
C9_Witness ==
    /\ client.state = "threw"
    /\ HasScheme(Trim(cfgIn.baseUrl))
    /\ \A c \in CallIds : calls[c].sent = 0

\* s has two neighbouring slashes
DoubledSeparator(s) == \E i \in 1..(Len(s) - 1) : s[i] = SLASH /\ s[i + 1] = SLASH

\* s without its scheme prefix
AfterScheme(s) ==
    IF StartsWith(s, HTTPS) THEN SubSeq(s, Len(HTTPS) + 1, Len(s))
    ELSE SubSeq(s, Len(HTTP) + 1, Len(s))

\* C10: the resolved request address has no doubled separator where base and path
\* meet: when neither the stored base (after its scheme) nor the path has a
\* doubled separator of its own, the address (after its scheme) has none.
C10_NoDoubledSeparator ==
    \A c \in CallIds :
        (/\ calls[c].pc = "fetch"
         /\ ~DoubledSeparator(AfterScheme(client.config.baseUrl))
         /\ ~DoubledSeparator(calls[c].req.path)) =>
            ~DoubledSeparator(AfterScheme(calls[c].url))

\* the part of an address behind its first question mark
RECURSIVE QueryOf(_)
QueryOf(href) ==
    IF href = <<>> THEN <<>>
    ELSE IF Head(href) = "?" THEN Tail(href)
    ELSE QueryOf(Tail(href))

\* s up to its first occurrence of ch, and s behind it
RECURSIVE Before(_, _)
Before(s, ch) ==
    IF s = <<>> \/ Head(s) = ch THEN <<>> ELSE <<Head(s)>> \o Before(Tail(s), ch)
After(s, ch) ==
    LET n == Len(Before(s, ch)) IN IF n >= Len(s) THEN <<>> ELSE SubSeq(s, n + 2, Len(s))

\* the character a percent escape of the model stands for
Unescape(hex) ==
    CASE hex = <<"2", "5">> -> "%"
      [] hex = <<"2", "6">> -> "&"
      [] hex = <<"2", "B">> -> "+"
      [] hex = <<"3", "D">> -> "="
      [] hex = <<"2", "F">> -> SLASH
      [] OTHER -> "?"

\* what a reader of application/x-www-form-urlencoded text decodes: a plus
\* sign is a space, a percent escape the character it names
RECURSIVE FormDecode(_)
FormDecode(s) ==
    IF s = <<>> THEN <<>>
    ELSE IF Head(s) = "+" THEN <<SP>> \o FormDecode(Tail(s))
    ELSE IF Head(s) = "%" /\ Len(s) >= 3
    THEN <<Unescape(SubSeq(s, 2, 3))>> \o FormDecode(SubSeq(s, 4, Len(s)))
    ELSE <<Head(s)>> \o FormDecode(Tail(s))

\* the decoded name/value pairs of a query string
RECURSIVE ParseQuery(_)
ParseQuery(qs) ==
    IF qs = <<>> THEN <<>>
    ELSE LET piece == Before(qs, "&")
         IN (IF piece = <<>> THEN <<>>
             ELSE <<[k |-> FormDecode(Before(piece, "=")),
                     v |-> FormDecode(After(piece, "="))]>>)
            \o ParseQuery(After(qs, "&"))

\* C11: for every query map handed to a client operation, a key whose value is
\* undefined does not appear in the query string of the request address, and every
\* key whose value is a string, a number or a boolean appears exactly once and
\* decodes back to String(value).
C11_QueryRoundTrip ==
    \A c \in CallIds :
        (calls[c].pc = "fetch" /\ calls[c].req.query.t = "object") =>
            LET entries == calls[c].req.query.entries
                pairs == ParseQuery(QueryOf(calls[c].url))
                At(k) == {j \in 1..Len(pairs) : pairs[j].k = k}
            IN \A i \in 1..Len(entries) :
                 IF entries[i].v.t = "undefined" THEN At(entries[i].k) = {}
                 ELSE /\ Cardinality(At(entries[i].k)) = 1
                      /\ \A j \in At(entries[i].k) : pairs[j].v = String(entries[i].v)

\* a request has been sent whose query map holds an undefined value next to a
\* string of the characters & + =
C11_Witness ==
    /\ calls[1].pc = "fetch"
    /\ calls[1].req.query.t = "object"
    /\ \E i, j \in 1..Len(calls[1].req.query.entries) :
         /\ calls[1].req.query.entries[i].v.t = "undefined"
         /\ calls[1].req.query.entries[j].v = StrVal(<<"&", "+", "=">>)
         /\ calls[1].req.query.entries[j].k = <<"a", "&", "b">>

\* the header value of each auth descriptor of the authorization specification,
\* written out (RFC 4648 encoding of email:apiToken for the basic ones)
AuthorizationOf(auth) ==
    CASE auth = [type |-> "bearer", token |-> <<"t", "k">>] ->
           <<"B", "e", "a", "r", "e", "r", " ", "t", "k">>
      [] auth = [type |-> "bearer", token |-> <<"a", "b", "c", "1", "2", "3">>] ->
           <<"B", "e", "a", "r", "e", "r", " ", "a", "b", "c", "1", "2", "3">>
      [] auth = [type |-> "basic", email |-> <<"u", "@", "a">>, apiToken |-> <<"p", "w">>] ->
           \* Basic dUBhOnB3
           <<"B", "a", "s", "i", "c", " ", "d", "U", "B", "h", "O", "n", "B", "3">>
      [] auth = [type |-> "basic", email |-> <<"u", "@", "a">>, apiToken |-> <<"t", "o", "k">>] ->
           \* Basic dUBhOnRvaw==
           <<"B", "a", "s", "i", "c", " ", "d", "U", "B", "h", "O", "n", "R", "v",
             "a", "w", "=", "=">>
      [] auth = [type |-> "basic", email |-> <<"u", "@", "a">>, apiToken |-> <<"t">>] ->
           \* Basic dUBhOnQ=
           <<"B", "a", "s", "i", "c", " ", "d", "U", "B", "h", "O", "n", "Q", "=">>
      [] auth = [type |-> "basic", email |-> <<"a", "@", "b", ".", "c", "o", "m">>, apiToken |-> <<"p", "w">>] ->
           \* Basic YUBiLmNvbTpwdw==
           <<"B", "a", "s", "i", "c", " ", "Y", "U", "B", "i", "L", "m", "N", "v",
             "b", "T", "p", "w", "d", "w", "=", "=">>
      [] auth = [type |-> "basic", email |-> <<"a", "@", "b", ".", "c", "o", "m">>, apiToken |-> <<"t", "o", "k">>] ->
           \* Basic YUBiLmNvbTp0b2s=
           <<"B", "a", "s", "i", "c", " ", "Y", "U", "B", "i", "L", "m", "N", "v",
             "b", "T", "p", "0", "b", "2", "s", "=">>
      [] auth = [type |-> "basic", email |-> <<"a", "@", "b", ".", "c", "o", "m">>, apiToken |-> <<"t">>] ->
           \* Basic YUBiLmNvbTp0
           <<"B", "a", "s", "i", "c", " ", "Y", "U", "B", "i", "L", "m", "N", "v",
             "b", "T", "p", "0">>

\* C12: every outbound request of getJson, putJson and postJson carries an
\* Authorization header determined only by the stored auth descriptor: "Bearer "
\* followed by the token for bearer auth, "Basic " followed by
\* base64(email:apiToken) for basic auth; all requests of one client carry the
\* same header value.
C12_AuthorizationHeader ==
    /\ \A c \in CallIds :
         calls[c].sent > 0 =>
            calls[c].init.headers.Authorization = AuthorizationOf(client.config.auth)
    /\ \A c, d \in CallIds :
         (calls[c].sent > 0 /\ calls[d].sent > 0) =>
            calls[c].init.headers.Authorization = calls[d].init.headers.Authorization

\* a basic-auth client whose credentials need base64 padding has sent two requests
\* with different methods
C12_Witness ==
    /\ client.state = "ready"
    /\ client.config.auth = [type |-> "basic", email |-> <<"a", "@", "b", ".", "c", "o", "m">>, apiToken |-> <<"t", "o", "k">>]
    /\ \E c, d \in CallIds :
         /\ calls[c].sent > 0 /\ calls[d].sent > 0
         /\ calls[c].method = "GET" /\ calls[d].method = "POST"

\* C13: construction from the environment with JIRA_BASE_URL unset or empty fails
\* with the message 'Missing required env var: JIRA_BASE_URL', whatever the values
\* of JIRA_BEARER_TOKEN, JIRA_EMAIL and JIRA_API_TOKEN; the constructor is not
\* reached.
C13_MissingBaseUrl ==
    (/\ env.t = "env"
     /\ client.state # "new"
     /\ (env.JIRA_BASE_URL.t = "undefined" \/ env.JIRA_BASE_URL = StrVal(<<>>)))
    => /\ client.state = "threw"
       /\ client.error.message = "Missing required env var: JIRA_BASE_URL"
       /\ cfgIn = NoConfig

\* construction has failed on an empty base address although bearer token, email
\* and API token are all set
C13_Witness ==
    /\ env.t = "env"
    /\ client.state = "threw"
    /\ env.JIRA_BASE_URL = StrVal(<<>>)
    /\ env.JIRA_BEARER_TOKEN = StrVal(<<"t", "k">>)
    /\ env.JIRA_EMAIL = StrVal(<<"u", "@", "a">>)
    /\ env.JIRA_API_TOKEN = StrVal(<<"p", "w">>)

\* a variable of the environment is set: it has a value and the value is not empty
\* (an empty variable counts as missing, as it does for the base address)
Present(v) == v.t = "string" /\ Len(v.s) > 0

\* C14: construction from the environment with a base address present selects
\* exactly one auth variant: bearer whenever JIRA_BEARER_TOKEN is set (even if
\* JIRA_EMAIL and JIRA_API_TOKEN are set too), basic only when the bearer variable
\* is not set and both JIRA_EMAIL and JIRA_API_TOKEN are, and otherwise it fails
\* with an auth-missing message that differs from the missing-base-address message.
\* The selected variant is the one the client stores and sends.
C14_AuthSelection ==
    (env.t = "env" /\ client.state # "new" /\ Present(env.JIRA_BASE_URL)) =>
        LET selected ==
              IF Present(env.JIRA_BEARER_TOKEN)
              THEN [type |-> "bearer", token |-> env.JIRA_BEARER_TOKEN.s]
              ELSE IF Present(env.JIRA_EMAIL) /\ Present(env.JIRA_API_TOKEN)
              THEN [type |-> "basic", email |-> env.JIRA_EMAIL.s,
                    apiToken |-> env.JIRA_API_TOKEN.s]
              ELSE [type |-> "none"]
        IN /\ cfgIn.auth = selected
           /\ cfgIn.auth.type \in {"bearer", "basic"} => cfgIn.baseUrl = env.JIRA_BASE_URL.s
           /\ client.state = "ready" => client.config.auth = selected
           /\ selected.type = "none" =>
                /\ client.state = "threw"
                /\ client.error.message = MissingAuth
                /\ client.error.message # "Missing required env var: JIRA_BASE_URL"
           /\ \A c \in CallIds :
                calls[c].sent > 0 =>
                    calls[c].init.headers.Authorization =
                        IF selected.type = "bearer" THEN BearerPrefix \o selected.token
                        ELSE BasicPrefix \o <<"d", "U", "B", "h", "O", "n", "B", "3">>

\* a client built with all four variables set has sent a request
C14_Witness ==
    /\ env.t = "env"
    /\ Present(env.JIRA_BASE_URL) /\ Present(env.JIRA_BEARER_TOKEN)
    /\ Present(env.JIRA_EMAIL) /\ Present(env.JIRA_API_TOKEN)
    /\ client.state = "ready"
    /\ calls[1].sent > 0

\* the value is a plain object (a map), not null and not an array
IsMap(v) == v.t = "object"
\* the map has the field
Has(v, key) == \E i \in 1..Len(v.entries) : v.entries[i].k = key
\* the value of a field the map has
Field(v, key) == v.entries[CHOOSE i \in 1..Len(v.entries) : v.entries[i].k = key].v

\* C15: looksLikeAdfDoc(value) is true if and only if value is a non-null
\* object/map and its type field equals "doc", or it has a version field (with any
\* value, null included), or it has a content field; it is false for every
\* non-object value and for every array, also one whose elements are documents.
C15_LooksLikeDocument ==
    (adf.pc = "given" /\ adf.looks.called) =>
        adf.looks.result =
            (/\ IsMap(adf.value)
             /\ \/ Has(adf.value, "type") /\ Field(adf.value, "type") = StrVal(DOC)
                \/ Has(adf.value, "version")
                \/ Has(adf.value, "content"))

\* looksLikeAdfDoc has answered true for an object whose only field is a null version
C15_Witness ==
    /\ adf.pc = "given"
    /\ adf.looks.called /\ adf.looks.result
    /\ adf.value = Obj(<<[k |-> "version", v |-> Null]>>)

\* the four checks of assertValidAdfDoc, as the claim words them
IsObjectValue(v) == v.t \in {"object", "array"}
TypeIsDoc(v) == IsMap(v) /\ Has(v, "type") /\ Field(v, "type") = StrVal(DOC)
VersionIsNumber(v) == IsMap(v) /\ Has(v, "version") /\ Field(v, "version").t = "number"
ContentIsArray(v) == IsMap(v) /\ Has(v, "content") /\ Field(v, "content").t = "array"

\* C16: assertValidAdfDoc(value, fieldLabel) checks in the order (1) value is a
\* non-null object, (2) type is exactly "doc", (3) version is a number, (4) content
\* is an array, and fails at the first check that does not hold with a message that
\* contains the field label and names that check; a value that violates several
\* checks reports the earliest one only, and an array passes check 1 and fails at
\* check 2.
C16_FirstFailedCheck ==
    (adf.pc = "given" /\ adf.valid.called /\ ~adf.valid.result.ok) =>
        LET v == adf.value
            message == adf.valid.result.error.message
        IN /\ message[1] = "Field \"" /\ message[2] = adf.field
           /\ message[3] =
                IF ~IsObjectValue(v) THEN "\" was expected to be an ADF doc object, got "
                ELSE IF ~TypeIsDoc(v) THEN "\" ADF doc is missing type=\"doc\""
                ELSE IF ~VersionIsNumber(v) THEN "\" ADF doc is missing numeric version"
                ELSE "\" ADF doc is missing array content"
           /\ ~IsObjectValue(v) \/ ~TypeIsDoc(v) \/ ~VersionIsNumber(v) \/ ~ContentIsArray(v)
           /\ v.t = "array" => message[3] = "\" ADF doc is missing type=\"doc\""

\* assertValidAdfDoc has failed on a typed document that has neither a numeric
\* version nor an array content, reporting the version
C16_Witness ==
    /\ adf.pc = "given"
    /\ adf.valid.called /\ ~adf.valid.result.ok
    /\ TypeIsDoc(adf.value) /\ ~VersionIsNumber(adf.value) /\ ~ContentIsArray(adf.value)
    /\ adf.valid.result.error.message[3] = "\" ADF doc is missing numeric version"

\* C17: assertValidAdfDoc returns without failing if and only if the value is a
\* non-null object whose type is exactly "doc", whose version is a number and whose
\* content is an array; on every other input it fails, and it fails in no other way
\* than with the validation error: an Error whose message starts with the field
\* label.
C17_ValidIff ==
    (adf.pc = "given" /\ adf.valid.called) =>
        /\ adf.valid.result.ok =
             (/\ IsObjectValue(adf.value)
              /\ TypeIsDoc(adf.value) /\ VersionIsNumber(adf.value) /\ ContentIsArray(adf.value))
        /\ ~adf.valid.result.ok =>
             /\ adf.valid.result.error.kind = "Error"
             /\ SubSeq(adf.valid.result.error.message, 1, 2) = <<"Field \"", adf.field>>

\* assertValidAdfDoc has returned on a document whose version is 0 and whose
\* content is not empty
C17_Witness ==
    /\ adf.pc = "given"
    /\ adf.valid.called /\ adf.valid.result.ok
    /\ Field(adf.value, "version") = NumVal(0)
    /\ Field(adf.value, "content") = Arr(<<Paragraph>>)

\* some top-level value of the field map looks like a document and is not a
\* valid one
HasBadDocument(fields) ==
    \E i \in 1..Len(fields.entries) :
        LET v == fields.entries[i].v
        IN /\ IsMap(v)
           /\ TypeIsDoc(v) \/ Has(v, "version") \/ Has(v, "content")
           /\ ~(TypeIsDoc(v) /\ VersionIsNumber(v) /\ ContentIsArray(v))

\* C18: in jira_update_issue_fields, jira_create_issue, jira_bulk_create_issues and
\* jira_bulk_edit_issues invoked with validateAdf = true, if a top-level field value
\* looks like a document and is not a valid document, the tool returns an error
\* result and no HTTP request is issued: the handler has returned before any call
\* is made on the client.
C18_ValidationBeforeCall ==
    (/\ tool.pc # "idle"
     /\ tool.name \in ValidatingTools
     /\ tool.args.validateAdf
     /\ \E i \in 1..Len(tool.args.fieldSets) : HasBadDocument(tool.args.fieldSets[i]))
    => /\ tool.pc = "done"
       /\ tool.result.isError
       /\ \A c \in CallIds : calls[c].pc = "idle" /\ calls[c].sent = 0

\* a bulk create whose second issue holds a document without version has been
\* answered, the first issue being fine
C18_Witness ==
    /\ tool.pc = "done"
    /\ tool.name = "jira_bulk_create_issues"
    /\ tool.args.validateAdf
    /\ Len(tool.args.fieldSets) = 2
    /\ ~HasBadDocument(tool.args.fieldSets[1])
    /\ HasBadDocument(tool.args.fieldSets[2])
    /\ tool.result.isError

\* the failures the state holds, each with the kind of failure it is: the error of
\* the constructor, the error of the validator, the error a call rejected with
Raised ==
    (IF client.state = "threw"
     THEN <<[is |-> "configuration", error |-> client.error]>> ELSE <<>>)
    \o (IF adf.pc = "given" /\ adf.valid.called /\ ~adf.valid.result.ok
        THEN <<[is |-> "validation", error |-> adf.valid.result.error]>> ELSE <<>>)
    \o SelectSeq([c \in CallIds |->
                    [is |-> IF calls[c].outcome.kind = "JiraHttpError" THEN "http"
                            ELSE IF calls[c].outcome.kind = "AbortError" THEN "timeout"
                            ELSE "transport",
                     error |-> calls[c].outcome]],
                 LAMBDA r : r.error.kind \notin {"none", "value"})

\* what a caller can tell of an error without reading its message: its name and
\* the properties it carries
Discriminator(error) == [kind |-> error.kind, props |-> (DOMAIN error) \ {"message"}]

\* C19 as stated: the failures raised by the core are pairwise distinguishable by
\* kind (configuration, validation, timeout/cancellation, RemoteHttpError, generic
\* transport) without parsing the message text, and each carries its structured
\* detail: status, url and bodyText for HTTP errors, the field label for validation
\* errors.
C19_DistinguishableByKind ==
    /\ \A i, j \in 1..Len(Raised) :
         Raised[i].is # Raised[j].is =>
            Discriminator(Raised[i].error) # Discriminator(Raised[j].error)
    /\ \A i \in 1..Len(Raised) :
         /\ Raised[i].is = "http" =>
              {"status", "url", "bodyText"} \subseteq DOMAIN Raised[i].error
         /\ Raised[i].is = "validation" => "field" \in DOMAIN Raised[i].error

\* C19 as the code has it: a JiraHttpError (with status, url and bodyText), an
\* AbortError and a TypeError or SyntaxError of the transport or the decoder are
\* told from one another and from every other failure by their kind alone;
\* configuration errors and validation errors are both plain Errors that carry a
\* message and nothing else, and the field label of a validation error is a part of
\* its message.
C19_ErrorKinds ==
    \A i \in 1..Len(Raised) :
        LET a == Raised[i]
        IN /\ a.is = "http" =>
                /\ a.error.kind = "JiraHttpError"
                /\ {"status", "url", "bodyText"} \subseteq DOMAIN a.error
           /\ a.is = "timeout" =>
                Discriminator(a.error) = [kind |-> "AbortError", props |-> {"kind"}]
           /\ a.is = "transport" =>
                /\ a.error.kind \in {"TypeError", "SyntaxError"}
                /\ DOMAIN a.error = {"kind"}
           /\ a.is \in {"configuration", "validation"} =>
                Discriminator(a.error) = [kind |-> "Error", props |-> {"kind"}]
           /\ a.is = "validation" => a.error.message[2] = adf.field

\* a validation error and the JiraHttpError of a call have both been raised
C19_Witness ==
    /\ \E i \in 1..Len(Raised) : Raised[i].is = "validation"
    /\ \E i \in 1..Len(Raised) : Raised[i].is = "http"

C21_CallsIndependent ==
    [][/\ \A c, d \in CallIds :
            (c # d /\ calls'[c] # calls[c]) => calls'[d] = calls[d]
       /\ \A c \in CallIds :
            (calls'[c].aborted /\ ~calls[c].aborted) =>
                calls[c].timer = "armed" /\ calls'[c].timer = "fired"
       /\ client.state = "ready" => client' = client]_vars

\* one call has failed on its timeout while another is still waiting for its
\* response with its timer armed and its signal not aborted
C21_Witness ==
    \E c, d \in CallIds :
        /\ Done(c) /\ calls[c].outcome.kind = "AbortError" /\ calls[c].timer = "fired"
        /\ calls[d].pc = "fetch" /\ calls[d].timer = "armed" /\ ~calls[d].aborted

\* the arguments of the invocation fail the document validation of their tool: a
\* field that looks like a document and is not a valid one, or a comment body
\* given as an object that is not a valid document
ValidationFails ==
    /\ tool.name \in ValidatingTools \cup {"jira_add_comment"}
    /\ tool.args.validateAdf
    /\ IF tool.name = "jira_add_comment"
       THEN /\ tool.args.body.t # "string"
            /\ ~(/\ TypeIsDoc(tool.args.body)
                 /\ VersionIsNumber(tool.args.body)
                 /\ ContentIsArray(tool.args.body))
       ELSE \E i \in 1..Len(tool.args.fieldSets) : HasBadDocument(tool.args.fieldSets[i])

\* the issue key of the invocation holds a lone surrogate
KeyNotEncodable ==
    /\ tool.name \in IssueKeyTools
    /\ \E i \in 1..Len(tool.args.issueKey) : tool.args.issueKey[i] = LONE_SURROGATE

\* C22 as stated: every tool handler invocation performs at most one client call,
\* and exactly one when its argument validation passes.
C22_ExactlyOneWhenValid ==
    tool.pc # "idle" =>
        /\ tool.clientCalls <= 1
        /\ ~ValidationFails => tool.clientCalls = 1

\* C22 as the code has it: a handler performs at most one client call and none
\* after that call has succeeded or failed.  It performs exactly one when the
\* validation of its arguments passes and the path of the call can be built; the
\* handlers that put the issue key into the path perform none for a key that
\* encodeURIComponent rejects (a lone surrogate), and return their error envelope.
C22_AtMostOneClientCall ==
    tool.pc # "idle" =>
        /\ tool.clientCalls = IF ValidationFails \/ KeyNotEncodable THEN 0 ELSE 1
        /\ tool.clientCalls = IF calls[1].pc = "idle" THEN 0 ELSE 1
        /\ calls[1].settled <= 1 /\ calls[1].sent <= 1
        /\ \A c \in CallIds \ {1} : calls[c].pc = "idle"
        /\ (tool.pc = "done" /\ tool.clientCalls = 0) => tool.result.isError

\* a handler has returned without a client call for an issue key with a lone
\* surrogate, its arguments being valid otherwise
C22_Witness ==
    /\ tool.pc = "done"
    /\ KeyNotEncodable /\ ~ValidationFails
    /\ tool.clientCalls = 0
    /\ tool.result.isError

\* the client call of the invocation was made and failed, or succeeded
CallFailed == tool.clientCalls = 1 /\ calls[1].outcome.kind \notin {"none", "value"}
CallSucceeded == tool.clientCalls = 1 /\ calls[1].outcome.kind = "value"

\* the envelope is an error with the message of its tool: the message of the catch
\* block, or the message of the bulk create that names the index of the entry
ToolSpecificError ==
    /\ tool.result.isError
    /\ IF tool.name = "jira_bulk_create_issues" /\ ValidationFails
       THEN tool.result.json.error[1] = "ADF validation failed for issueUpdates["
       ELSE tool.result.json.error = FailedTo(tool.name)

\* the details of the envelope are the status, url and bodyText of the
\* JiraHttpError the call failed with (an undefined bodyText is not written)
DetailsCarried ==
    LET error == calls[1].outcome
        extra == tool.result.json.extra
    IN /\ extra.message = error.message
       /\ "details" \in DOMAIN extra
       /\ extra.details.status = error.status
       /\ extra.details.url = error.url
       /\ IF error.bodyText.t = "undefined"
          THEN "bodyText" \notin DOMAIN extra.details
          ELSE extra.details.bodyText = error.bodyText

\* one of the two error outcomes of jira_resolve_user_account_id
ResolveOutcome ==
    /\ tool.name = "jira_resolve_user_account_id"
    /\ tool.result.json.error \in {NoUsersFound, NoExactEmailMatch}

\* the decoded body has the shape its handler reads: for the three handlers that
\* shape a list, an array of objects whose id and name (list fields with a query)
\* or emailAddress if any (resolve user) are strings
WellShaped ==
    LET value == calls[1].outcome.value
        Strings(key, optional) ==
            \A i \in 1..Len(value.items) :
                \/ Get(value.items[i], key).t = "string"
                \/ optional /\ Get(value.items[i], key).t = "undefined"
    IN tool.name \in {"jira_list_fields", "jira_search_users",
                      "jira_resolve_user_account_id"}
       => /\ value.t = "array"
          /\ \A i \in 1..Len(value.items) : value.items[i].t = "object"
          /\ tool.name = "jira_list_fields" => Strings("id", FALSE) /\ Strings("name", FALSE)
          /\ tool.name = "jira_resolve_user_account_id" => Strings("emailAddress", TRUE)

\* C23 as stated: every handler returns an envelope; when the client call or the
\* validation fails it is an error with the message of the tool, for a
\* JiraHttpError with its status, url and bodyText; and an envelope produced from a
\* successful client call is an error only for the two outcomes of
\* jira_resolve_user_account_id.
C23_ErrorOnlyOnFailure ==
    tool.pc = "done" =>
        /\ tool.result.isError \in BOOLEAN
        /\ (ValidationFails \/ CallFailed) => ToolSpecificError
        /\ (CallFailed /\ calls[1].outcome.kind = "JiraHttpError") => DetailsCarried
        /\ (CallSucceeded /\ tool.result.isError) => ResolveOutcome

\* C23 as the code has it: as stated, but an envelope produced from a successful
\* client call is an error also when the handler of jira_list_fields,
\* jira_search_users or jira_resolve_user_account_id throws while it shapes a
\* decoded body that is not the list it expects; the envelope then has the message
\* of the tool and the message of the runtime error, without details.
C23_Envelope ==
    tool.pc = "done" =>
        /\ tool.result.isError \in BOOLEAN
        /\ (ValidationFails \/ CallFailed) => ToolSpecificError
        /\ (CallFailed /\ calls[1].outcome.kind = "JiraHttpError") => DetailsCarried
        /\ (CallSucceeded /\ tool.result.isError) =>
              \/ ResolveOutcome
              \/ /\ ~WellShaped
                 /\ tool.result.json.error = FailedTo(tool.name)
                 /\ tool.result.json.extra = [message |-> [runtime |-> "TypeError"]]
        /\ (CallSucceeded /\ WellShaped /\ tool.name # "jira_resolve_user_account_id")
              => ~tool.result.isError

\* a handler has returned the error envelope of a call that failed on a non-2xx
\* response, with the body text of the response in its details
C23_Witness ==
    /\ tool.pc = "done"
    /\ CallFailed /\ calls[1].outcome.kind = "JiraHttpError"
    /\ tool.result.isError
    /\ tool.result.json.extra.details.status = 400
    /\ "bodyText" \in DOMAIN tool.result.json.extra.details

\* the users the remote returned to the client call of the invocation, in the
\* order it returned them
RemoteUsers == calls[1].outcome.value.items

\* the remote users without those whose active flag is false, unless the
\* invocation includes the inactive
Candidates ==
    IF tool.args.includeInactive THEN RemoteUsers
    ELSE SelectSeq(RemoteUsers,
                   LAMBDA u : ~(Has(u, "active") /\ Field(u, "active") = BoolVal(FALSE)))

\* the candidates whose email is the trimmed query, letter case aside
Matching ==
    {i \in 1..Len(Candidates) :
        /\ Has(Candidates[i], "emailAddress")
        /\ ToLowerCase(Field(Candidates[i], "emailAddress").s)
              = ToLowerCase(Trim(tool.args.query.s))}

\* the user of an envelope is the user the remote returned
SameUser(shown, remote) ==
    \A key \in {"accountId", "displayName", "active", "emailAddress"} :
        Get(shown, key) = Get(remote, key)

C25_SearchUsers ==
    (tool.pc = "done" /\ tool.name = "jira_search_users" /\ CallSucceeded) =>
        LET users == Get(tool.result.json, "users").items
        IN /\ ~tool.result.isError
           /\ Get(tool.result.json, "count") = NumVal(Len(users))
           /\ Len(users) = Len(Candidates)
           /\ \A i \in 1..Len(users) : SameUser(users[i], Candidates[i])
           /\ ~tool.args.includeInactive =>
                 \A i \in 1..Len(users) : Get(users[i], "active") # BoolVal(FALSE)
           /\ tool.args.includeInactive =>
                 /\ Len(users) = Len(RemoteUsers)
                 /\ \A i \in 1..Len(users) : SameUser(users[i], RemoteUsers[i])

\* a search has returned the second of two remote users, which has no active
\* flag, and left out the first, which is inactive
C25_Witness ==
    /\ tool.pc = "done" /\ tool.name = "jira_search_users" /\ CallSucceeded
    /\ ~tool.args.includeInactive
    /\ Len(RemoteUsers) = 2
    /\ Get(RemoteUsers[1], "active") = BoolVal(FALSE)
    /\ ~Has(RemoteUsers[2], "active")
    /\ Get(tool.result.json, "count") = NumVal(1)
    /\ SameUser(Get(tool.result.json, "users").items[1], RemoteUsers[2])

\* the comment body of the request that jira_add_comment has made
SentComment == Get(calls[1].req.body, "body")

\* the value is a document by the four checks of the strict validator
IsValidDocument(v) == TypeIsDoc(v) /\ VersionIsNumber(v) /\ ContentIsArray(v)

\* C26: jira_add_comment sends as the comment body the caller's object unchanged
\* or, for a string, a wrapping document with type "doc", version 1 and an array
\* content that holds the text; with validateAdf = true every comment body that
\* reaches the client call is a valid document, an object body having been checked
\* by the strict validator whether or not it looks like a document.
C26_CommentBody ==
    (tool.pc # "idle" /\ tool.name = "jira_add_comment" /\ tool.clientCalls = 1) =>
        /\ calls[1].method = "POST"
        /\ IF tool.args.body.t = "string"
           THEN /\ TypeIsDoc(SentComment)
                /\ Get(SentComment, "version") = NumVal(1)
                /\ ContentIsArray(SentComment)
                /\ \E i \in 1..Len(Get(SentComment, "content").items) :
                      LET inner == Get(Get(SentComment, "content").items[i], "content")
                      IN /\ inner.t = "array"
                         /\ \E j \in 1..Len(inner.items) :
                               Get(inner.items[j], "text") = tool.args.body
           ELSE SentComment = tool.args.body
        /\ tool.args.validateAdf =>
              /\ IsValidDocument(SentComment)
              /\ tool.validated = 1

\* a comment given as a string has been sent wrapped, after validation
C26_Witness ==
    /\ tool.pc = "done" /\ tool.name = "jira_add_comment" /\ tool.clientCalls = 1
    /\ tool.args.body.t = "string"
    /\ tool.args.validateAdf
    /\ SentComment # tool.args.body
    /\ IsValidDocument(SentComment)
    /\ ~tool.result.isError

\* the body is no JSON text: it is empty or begins with a character that begins
\* no JSON value
NotJson(body) == Chars(body) = <<>> \/ Chars(body)[1] \in {"<", "O"}

\* C27: getJson decodes the body as JSON on every 2xx response, 204 and an empty
\* body included: the body is read by res.json() and never as an error text, and
\* a 2xx response whose body is no JSON makes the call fail with a failure that is
\* not a JiraHttpError; it never yields a value, so never an empty object.
C27_GetAlwaysDecodes ==
    \A c \in CallIds :
        LET call == calls[c]
        IN (call.method = "GET" /\ ResOk(call.res)) =>
              /\ call.pc \in {"json", "done"}
              /\ call.bodyUsed
              /\ call.pc = "done" =>
                    /\ call.outcome.kind # "JiraHttpError"
                    /\ call.outcome # Value(EmptyObject)
                    /\ NotJson(call.res.body) => call.outcome.kind # "value"
                    /\ call.bodyRead = "ok" =>
                          call.outcome.kind \in {"value", "SyntaxError"}

\* a GET answered 204 with an empty body has failed in the decoder
C27_Witness ==
    \E c \in CallIds :
        /\ calls[c].method = "GET" /\ calls[c].pc = "done"
        /\ calls[c].res.status = 204 /\ Chars(calls[c].res.body) = <<>>
        /\ calls[c].bodyRead = "ok"
        /\ calls[c].outcome = Failure("SyntaxError")

\* the indexes (from 0) of the issueUpdates entries whose fields hold an invalid
\* document-like value
BadEntries ==
    {i \in 0..(Len(tool.args.fieldSets) - 1) : HasBadDocument(tool.args.fieldSets[i + 1])}

\* C28: jira_bulk_create_issues with validateAdf = true validates the issueUpdates
\* entries in index order and, when some entry has an invalid document-like field,
\* returns an error that names the lowest such index (issueUpdates[idx].fields),
\* having validated no later entry and issued no HTTP request.
C28_LowestIndexFirst ==
    (/\ tool.pc # "idle" /\ tool.name = "jira_bulk_create_issues"
     /\ tool.args.validateAdf /\ BadEntries # {}) =>
        LET lowest == CHOOSE i \in BadEntries : \A j \in BadEntries : i <= j
        IN /\ tool.pc = "done"
           /\ tool.result.isError
           /\ tool.result.json.error
                 = <<"ADF validation failed for issueUpdates[", lowest, "].fields">>
           /\ tool.validated = lowest + 1
           /\ tool.clientCalls = 0
           /\ calls[1].pc = "idle" /\ calls[1].sent = 0

\* a bulk create of two entries, both with an invalid document, has returned the
\* error of the first without looking at the second
C28_Witness ==
    /\ tool.pc = "done" /\ tool.name = "jira_bulk_create_issues"
    /\ tool.args.validateAdf
    /\ BadEntries = {0, 1}
    /\ tool.validated = 1
    /\ tool.result.isError
    /\ calls[1].sent = 0

\* C29: every value that assertValidAdfDoc accepts is a value that looksLikeAdfDoc
\* accepts, so validation gated on looksLikeAdfDoc lets no valid document skip
\* the validation and rejects no valid document (a gated value has the result of
\* the strict validator); a field value that does not look like a document passes
\* validateAdfInFields without any validation, whatever the strict validator would
\* say of it.
C29_ValidLooksLike ==
    adf.pc = "given" =>
        /\ (adf.valid.called /\ adf.looks.called /\ adf.valid.result.ok) => adf.looks.result
        /\ (adf.valid.called /\ adf.inFields.called /\ adf.valid.result.ok) =>
              adf.inFields.result.ok
        /\ (adf.looks.called /\ adf.inFields.called /\ ~adf.looks.result) =>
              adf.inFields.result = Returned
        /\ (adf.looks.called /\ adf.valid.called /\ adf.inFields.called /\ adf.looks.result) =>
              adf.inFields.result = adf.valid.result

\* the three functions have been applied to a valid document with a paragraph
C29_Witness ==
    /\ adf.pc = "given"
    /\ adf.looks.called /\ adf.valid.called /\ adf.inFields.called
    /\ Get(adf.value, "content") = Arr(<<Paragraph>>)
    /\ adf.valid.result.ok /\ adf.looks.result /\ adf.inFields.result.ok

\* C30: base-address normalization is idempotent on accepted inputs: for every
\* base address the constructor accepts, normalizing the stored base address
\* again accepts it and returns it unchanged.
C30_NormalizeIdempotent ==
    client.state = "ready" =>
        /\ normalizeBaseUrl(client.config.baseUrl).ok
        /\ normalizeBaseUrl(client.config.baseUrl).value = client.config.baseUrl

====
